---- MODULE Spec2Model ----
(***************************************************************************)
(* Comment deduplication / spam-detection engine of youtube-creator-tools. *)
(*                                                                         *)
(*   src/src/services/comment_processor.py   CommentProcessor              *)
(*   src/src/services/url_spam_detector.py   URLSpamDetector               *)
(*   src/src/api/processor_routes.py         the /processor routes         *)
(*                                                                         *)
(* A text is a sequence of characters; a character is a string naming it.  *)
(* Scores that the code keeps as floats with one decimal          *)
(* (0.3 * risk_score, 0.5 * risk_score) are kept in tenths; similarity     *)
(* ratios are kept as exact fractions and thresholds in percent.           *)
(***************************************************************************)
EXTENDS Integers, Sequences, FiniteSets, TLC

(***************************************************************************)
(* Bounds of the model.                                                    *)
(***************************************************************************)
\* Longest comment list handed to the processor.
MaxComments == 3
\* Longest comment text handed to URLSpamDetector.analyze_comment.
MaxTextLen == 4
\* HTTP requests of the /processor routes in one behaviour.
MaxRequests == 2

(***************************************************************************)
(* State.                                                                  *)
(***************************************************************************)
VARIABLES
    processor,       \* the CommentProcessor: similarity_threshold (percent),
                     \* min_duplicate_count
    comment_list,    \* the list a method of the processor was called with
    pc,              \* where that call is
    processed,       \* detect_similar_duplicates: comments processed so far
    open_groups,     \* detect_similar_duplicates: its local similar_groups
    result,          \* the method called and the value it returned
    arg_text,        \* the text a function on strings was called with
    arg_text2,       \* calculate_similarity: its second text
    arg_author,      \* URLSpamDetector.analyze_comment: the author name
    verdict,         \* and the verdict it returned
    requests,        \* the HTTP requests of the /processor routes
    download,        \* a call of _download_comments_sync: its limit, the
                     \* comment source, how much of it was consumed, and
                     \* the local list comments
    analyze_calls,   \* per comment of the list, how often process_comments
                     \* invoked url_spam_detector.analyze_comment on it
    detector         \* the URLSpamDetector: the tables its __init__ set

vars == <<processor, comment_list, pc, processed, open_groups, result,
          arg_text, arg_text2, arg_author, verdict, requests,
          download, analyze_calls, detector>>

(***************************************************************************)
(* Characters.                                                             *)
(***************************************************************************)
\* Python's None where a string is expected (a value no text is equal to).
NoneText == <<"<None>">>
\* A key that a comment dict does not have (comment['text'] raises KeyError).
MissingKey == <<"<missing>">>
\* A value of another type where a string is expected (an int).
NotAString == <<"<int>">>
\* The values the re module and the str methods accept.
IsStr(value) == value \notin {NoneText, MissingKey, NotAString}

\* The characters of the model.  "gu" and "dok" name the two Hangul syllables
\* of the keyword U+AD6C U+B3C5 ("subscribe"); every other character is
\* itself.
LowerLetters == {"a", "b", "c", "d", "e", "f", "g", "h", "i", "j", "k", "l", "m",
                 "n", "o", "p", "q", "r", "s", "t", "u", "v", "w", "x", "y", "z"}
UpperLetters == {"A", "B", "C", "T", "V"}
HangulSyllables == {"gu", "dok"}
Punctuation  == {"!", "-", ".", "/", ":"}
Whitespace   == {" "}

\* str.lower() on one character.
lower(c) ==
    CASE c = "A" -> "a"
      [] c = "B" -> "b"
      [] c = "C" -> "c"
      [] c = "T" -> "t"
      [] c = "V" -> "v"
      [] OTHER -> c

\* \w of Python's re on str: letters (Hangul included), digits, underscore.
IsWordChar(c) == c \in LowerLetters \cup UpperLetters \cup HangulSyllables
\* [A-Z] and [a-zA-Z] of Python's re.
IsAsciiUpper(c) == c \in UpperLetters
IsAsciiLetter(c) == c \in LowerLetters \cup UpperLetters
\* \s of Python's re.
IsSpace(c) == c \in Whitespace

LowerText(text) == [k \in DOMAIN text |-> lower(text[k])]

\* Python's "needle in haystack" on strings.
Contains(haystack, needle) ==
    \E s \in 0..(Len(haystack) - Len(needle)) :
        \A k \in 1..Len(needle) : haystack[s + k] = needle[k]

(***************************************************************************)
(* CommentProcessor.preprocess_text                                        *)
(***************************************************************************)
\* re.sub(r'\s+', ' ', text): every maximal run of whitespace becomes " ".
RECURSIVE CollapseSpaces(_)
CollapseSpaces(text) ==
    IF text = <<>> THEN <<>>
    ELSE IF IsSpace(Head(text))
         THEN IF Len(text) > 1 /\ IsSpace(text[2])
              THEN CollapseSpaces(Tail(text))
              ELSE <<" ">> \o CollapseSpaces(Tail(text))
         ELSE <<Head(text)>> \o CollapseSpaces(Tail(text))

\* str.strip(): leading and trailing whitespace removed.
RECURSIVE Strip(_)
Strip(text) ==
    IF text = <<>> THEN <<>>
    ELSE IF IsSpace(Head(text)) THEN Strip(Tail(text))
    ELSE IF IsSpace(text[Len(text)]) THEN Strip(SubSeq(text, 1, Len(text) - 1))
    ELSE text

KeptByNormalizer(c) == IsWordChar(c) \/ IsSpace(c)

\* preprocess_text stripping before the special characters are removed.
preprocess_text_strip_first(text) ==
    IF text = NoneText \/ text = <<>> THEN <<>>
    ELSE CollapseSpaces(SelectSeq(Strip(LowerText(text)), KeptByNormalizer))

preprocess_text(text) ==
    IF text = NoneText \/ text = <<>> THEN <<>>
    ELSE Strip(CollapseSpaces(SelectSeq(LowerText(text), KeptByNormalizer)))

\* hashlib.md5 of the normalized text: a digest that is equal exactly when
\* the normalized texts are equal (no MD5 collision among the short texts of
\* the model).
calculate_text_hash(text) == <<"md5">> \o preprocess_text(text)

(***************************************************************************)
(* difflib.SequenceMatcher(None, a, b).ratio() as calculate_similarity      *)
(* calls it.  No junk: isjunk is None and autojunk needs len(b) >= 200.     *)
(***************************************************************************)
\* Length of the common run of a and b that ends at a[i], b[j] and stays
\* inside a[alo..], b[blo..] (the j2len table of find_longest_match).
RECURSIVE RunLen(_, _, _, _, _, _)
RunLen(a, b, i, j, alo, blo) ==
    IF i < alo \/ j < blo THEN 0
    ELSE IF a[i] # b[j] THEN 0
    ELSE 1 + RunLen(a, b, i - 1, j - 1, alo, blo)

\* find_longest_match(alo, ahi, blo, bhi) on the 1-based closed ranges
\* a[alo..ahi], b[blo..bhi]: the longest matching block; of those the one
\* met first when i ascends and, for each i, j ascends (k > bestsize is
\* strict), i.e. earliest in a, then earliest in b.
find_longest_match(a, b, alo, ahi, blo, bhi) ==
    LET Ends == {p \in (alo..ahi) \X (blo..bhi) : a[p[1]] = b[p[2]]}
        K(p) == RunLen(a, b, p[1], p[2], alo, blo)
    IN  IF Ends = {} THEN [i |-> alo, j |-> blo, size |-> 0]
        ELSE LET best == CHOOSE p \in Ends :
                            \A q \in Ends :
                                \/ K(q) < K(p)
                                \/ /\ K(q) = K(p)
                                   /\ \/ p[1] < q[1]
                                      \/ p[1] = q[1] /\ p[2] <= q[2]
             IN  [i |-> best[1] - K(best) + 1,
                  j |-> best[2] - K(best) + 1,
                  size |-> K(best)]

\* get_matching_blocks: the sizes of the blocks found by splitting around
\* the longest match, left part and right part.
RECURSIVE MatchingSize(_, _, _, _, _, _)
MatchingSize(a, b, alo, ahi, blo, bhi) ==
    LET m == find_longest_match(a, b, alo, ahi, blo, bhi)
    IN  IF m.size = 0 THEN 0
        ELSE m.size
             + (IF alo < m.i /\ blo < m.j
                THEN MatchingSize(a, b, alo, m.i - 1, blo, m.j - 1) ELSE 0)
             + (IF m.i + m.size <= ahi /\ m.j + m.size <= bhi
                THEN MatchingSize(a, b, m.i + m.size, ahi, m.j + m.size, bhi)
                ELSE 0)

\* SequenceMatcherRatio without the factor 2.0.
SequenceMatcherRatio_unscaled(a, b) ==
    IF Len(a) + Len(b) = 0 THEN [num |-> 1, den |-> 1]
    ELSE [num |-> MatchingSize(a, b, 1, Len(a), 1, Len(b)),
          den |-> Len(a) + Len(b)]

\* ratio() = 2.0 * matches / (len(a) + len(b)), as the fraction num/den.
SequenceMatcherRatio(a, b) ==
    IF Len(a) + Len(b) = 0 THEN [num |-> 1, den |-> 1]
    ELSE [num |-> 2 * MatchingSize(a, b, 1, Len(a), 1, Len(b)),
          den |-> Len(a) + Len(b)]

ZeroRatio == [num |-> 0, den |-> 1]

\* A calculate_similarity that compares the texts as given, without
\* preprocess_text.
calculate_similarity_raw(text1, text2) ==
    IF text1 = NoneText \/ text1 = <<>> \/ text2 = NoneText \/ text2 = <<>>
    THEN ZeroRatio
    ELSE SequenceMatcherRatio(text1, text2)

(***************************************************************************)
(* CommentProcessor.calculate_similarity                                   *)
(***************************************************************************)
calculate_similarity(text1, text2) ==
    IF text1 = NoneText \/ text1 = <<>> \/ text2 = NoneText \/ text2 = <<>>
    THEN ZeroRatio
    ELSE LET normalized_text1 == preprocess_text(text1)
             normalized_text2 == preprocess_text(text2)
         IN  IF normalized_text1 = <<>> \/ normalized_text2 = <<>>
             THEN ZeroRatio
             ELSE SequenceMatcherRatio(normalized_text1, normalized_text2)

\* similarity >= threshold and similarity > threshold, with the threshold in
\* percent.  The float comparison of the code agrees with the exact one: both
\* sides are correctly rounded, and two different fractions with these small
\* denominators never round to the same double.
RatioAtLeast(r, pct) == r.num * 100 >= pct * r.den
RatioAbove(r, pct) == r.num * 100 > pct * r.den

(***************************************************************************)
(* URLSpamDetector: the rule tables, restricted to the entries that can be *)
(* spelled with the characters of the model (an entry with any other       *)
(* character matches no text of the model).                                *)
(***************************************************************************)
Categories == {"adult_content", "promotion", "malicious", "gambling", "scam",
               "commercial", "suspicious_content", "adult_slang"}

\* self.suspicious_patterns as __init__ sets it: per category the keywords
\* and domains that are written in the characters of the model ("gu dok" is
\* the Hangul keyword of promotion), and the risk_score.
suspicious_patterns ==
    [c \in Categories |->
        CASE c = "adult_content" ->
            [keywords |-> {<<"a", "d", "u", "l", "t">>,
                          <<"x", "x", "x">>,
                          <<"p", "o", "r", "n">>},
             domains |-> {<<"x", "v", "i", "d", "e", "o", "s", ".", "c", "o", "m">>,
                         <<"p", "o", "r", "n", "h", "u", "b", ".", "c", "o", "m">>,
                         <<"x", "n", "x", "x", ".", "c", "o", "m">>},
             risk_score |-> 10]
          [] c = "promotion" ->
            [keywords |-> {<<"gu", "dok">>},
             domains |-> {<<"y", "o", "u", "t", "u", "b", "e", ".", "c", "o", "m">>,
                         <<"y", "o", "u", "t", "u", ".", "b", "e">>},
             risk_score |-> 5]
          [] c = "malicious" ->
            [keywords |-> {},
             domains |-> {<<"b", "i", "t", ".", "l", "y">>,
                         <<"t", "i", "n", "y", "u", "r", "l", ".", "c", "o", "m">>,
                         <<"s", "h", "o", "r", "t", ".", "l", "i", "n", "k">>,
                         <<"o", "w", ".", "l", "y">>,
                         <<"t", "i", "n", "y", ".", "c", "c">>},
             risk_score |-> 8]
          [] c = "gambling" ->
            [keywords |-> {<<"c", "a", "s", "i", "n", "o">>,
                          <<"b", "e", "t">>},
             domains |-> {<<"c", "a", "s", "i", "n", "o", ".", "c", "o", "m">>},
             risk_score |-> 9]
          [] c = "scam" ->
            [keywords |-> {},
             domains |-> {},
             risk_score |-> 7]
          [] c = "commercial" ->
            [keywords |-> {},
             domains |-> {<<"s", "h", "o", "p", "p", "i", "n", "g", ".", "n", "a", "v", "e", "r", ".", "c", "o", "m">>,
                         <<"c", "o", "u", "p", "a", "n", "g", ".", "c", "o", "m">>,
                         <<"g", "m", "a", "r", "k", "e", "t", ".", "c", "o", ".", "k", "r">>},
             risk_score |-> 4]
          [] c = "suspicious_content" ->
            [keywords |-> {},
             domains |-> {},
             risk_score |-> 3]
          [] c = "adult_slang" ->
            [keywords |-> {},
             domains |-> {},
             risk_score |-> 8]]

\* suspicious_patterns[category]['risk_score']
risk_score(category) == detector.suspicious_patterns[category].risk_score

\* suspicious_patterns[category]['keywords']
keywords(category) == detector.suspicious_patterns[category].keywords

\* suspicious_patterns[category]['domains']
domains(category) == detector.suspicious_patterns[category].domains

\* Python's re, a backtracking matcher, on patterns given as trees.  "todo"
\* is the patterns still to match, one after the other, from position i of
\* the text (the index of the next character).  regex_branches is what the
\* matcher may do with the first of them, in the order in which it tries:
\* alternatives from left to right, a repetition before its end (greedy).
\* Every repeated pattern is one character.
regex_branches(todo, text, i) ==
    LET re == Head(todo)
        rest == Tail(todo)
    IN  CASE re.op = "lit" ->
                IF i + Len(re.s) - 1 > Len(text) THEN <<>>
                ELSE IF SubSeq(text, i, i + Len(re.s) - 1) = re.s
                THEN <<[todo |-> rest, at |-> i + Len(re.s)]>> ELSE <<>>
          [] re.op = "set" ->
                IF i > Len(text) THEN <<>>
                ELSE IF text[i] \in re.chars
                THEN <<[todo |-> rest, at |-> i + 1]>> ELSE <<>>
          [] re.op = "bol" -> IF i = 1 THEN <<[todo |-> rest, at |-> i]>> ELSE <<>>
          [] re.op = "seq" -> <<[todo |-> re.parts \o rest, at |-> i]>>
          [] re.op = "alt" ->
                [k \in DOMAIN re.parts |-> [todo |-> <<re.parts[k]>> \o rest, at |-> i]]
          [] re.op = "opt" ->
                <<[todo |-> <<re.of>> \o rest, at |-> i], [todo |-> rest, at |-> i]>>
          [] re.op = "star" ->
                <<[todo |-> <<re.of, re>> \o rest, at |-> i], [todo |-> rest, at |-> i]>>
          [] re.op = "plus" ->
                <<[todo |-> <<re.of, [op |-> "star", of |-> re.of]>> \o rest, at |-> i]>>

\* regex_match: the position at which the first match of "todo" from
\* position i ends, and 0 when there is none; try_branches: the first of the
\* branches, in their order, that leads to a match.
RECURSIVE regex_match(_, _, _), try_branches(_, _)
regex_match(todo, text, i) ==
    IF todo = <<>> THEN i ELSE try_branches(regex_branches(todo, text, i), text)

try_branches(branches, text) ==
    Head(SelectSeq([k \in DOMAIN branches |->
                        regex_match(branches[k].todo, text, branches[k].at)],
                   LAMBDA end : end # 0) \o <<0>>)

\* re.finditer(pattern, text, re.IGNORECASE) from position pos on: the
\* leftmost matches that do not overlap, as [start, end] with the offsets of
\* Python (from 0, end exclusive).  The patterns are in lower case and are
\* matched against the lower-cased text; none of them matches the empty
\* string.  next_matches: the scan goes on behind a match that ends at "end",
\* and at the next position when there is none (end = 0).
RECURSIVE finditer(_, _, _), next_matches(_, _, _, _)
finditer(pattern, text, pos) ==
    IF pos > Len(text) THEN <<>>
    ELSE next_matches(pattern, text, pos,
                      regex_match(<<pattern>>, LowerText(text), pos))

next_matches(pattern, text, pos, end) ==
    IF end = 0 THEN finditer(pattern, text, pos + 1)
    ELSE <<[start |-> pos - 1, end |-> end - 1]>> \o finditer(pattern, text, end)

\* self.url_patterns as __init__ sets it, in the order of the list, each
\* pattern as a tree.  The model has no digit and none of "_", "?", "#", "@",
\* which are left out of the character sets and alternatives.
url_patterns ==
    LET Lit(s) == [op |-> "lit", s |-> s]
        Set(chars) == [op |-> "set", chars |-> chars]
        Cat(parts) == [op |-> "seq", parts |-> parts]
        Alt(parts) == [op |-> "alt", parts |-> parts]
        Opt(r) == [op |-> "opt", of |-> r]
        Star(r) == [op |-> "star", of |-> r]
        Plus(r) == [op |-> "plus", of |-> r]
        word == LowerLetters \cup UpperLetters \cup HangulSyllables
        \* [-\w.]
        host == Set(word \cup {"-", "."})
        \* (?:/(?:[\w/_.])*(?:\?(?:[\w&=%.])*)?(?:#(?:[\w.])*)?)?
        path == Opt(Cat(<<Lit(<<"/">>), Star(Set(word \cup {"/", "."}))>>))
        \* \.(?:com|kr|net|org|edu|gov|co\.kr|ne\.kr)
        tld == Alt(<<Lit(<<".", "c", "o", "m">>),
                     Lit(<<".", "k", "r">>),
                     Lit(<<".", "n", "e", "t">>),
                     Lit(<<".", "o", "r", "g">>),
                     Lit(<<".", "e", "d", "u">>),
                     Lit(<<".", "g", "o", "v">>),
                     Lit(<<".", "c", "o", ".", "k", "r">>),
                     Lit(<<".", "n", "e", ".", "k", "r">>)>>)
    IN  <<\* https?://(?:[-\w.])+(?:[:\d]+)?(path)?
          Cat(<<Lit(<<"h", "t", "t", "p">>), Opt(Lit(<<"s">>)),
                Lit(<<":", "/", "/">>), Plus(host), Opt(Plus(Set({":"}))), path>>),
          \* www\.(?:[-\w.])+\.(tld)(path)?
          Cat(<<Lit(<<"w", "w", "w", ".">>), Plus(host), tld, path>>),
          \* (?:^|\s)(?:[-\w.]+\.(tld))(path)?
          Cat(<<Alt(<<[op |-> "bol"], Set(Whitespace)>>), Plus(host), tld, path>>),
          \* (?:youtube\.com/channel/|youtube\.com/@|youtu\.be/)[\w-]+
          Cat(<<Alt(<<Lit(<<"y", "o", "u", "t", "u", "b", "e", ".", "c", "o", "m", "/", "c", "h", "a", "n", "n", "e", "l", "/">>),
                      Lit(<<"y", "o", "u", "t", "u", ".", "b", "e", "/">>)>>),
                Plus(Set(word \cup {"-"}))>>),
          \* (?:bit\.ly|tinyurl\.com|ow\.ly|tiny\.cc)/[\w-]+
          Cat(<<Alt(<<Lit(<<"b", "i", "t", ".", "l", "y">>),
                      Lit(<<"t", "i", "n", "y", "u", "r", "l", ".", "c", "o", "m">>),
                      Lit(<<"o", "w", ".", "l", "y">>),
                      Lit(<<"t", "i", "n", "y", ".", "c", "c">>)>>),
                Lit(<<"/">>), Plus(Set(word \cup {"-"}))>>)>>

\* The entries of extract_urls for the matches found: 'url' is
\* match.group(0).strip(), and a match that strips to nothing has no entry.
url_entries(text, matches) ==
    SelectSeq([k \in DOMAIN matches |->
                    [url |-> Strip(SubSeq(text, matches[k].start + 1, matches[k].end)),
                     start |-> matches[k].start, end |-> matches[k].end]],
              LAMBDA e : e.url # <<>>)

\* The matches without those whose span an earlier match has.
without_repeated_spans(matches) ==
    LET at == SelectSeq([k \in DOMAIN matches |-> k],
                        LAMBDA k : \A j \in 1..(k - 1) : matches[j] # matches[k])
    IN  [k \in DOMAIN at |-> matches[at[k]]]

\* extract_urls on deduplicated matches.
extract_urls_deduplicated(text) ==
    LET RECURSIVE From(_)
        From(p) ==
            IF p > Len(detector.url_patterns) THEN <<>>
            ELSE finditer(detector.url_patterns[p], text, 1) \o From(p + 1)
    IN  url_entries(text,
            without_repeated_spans(
                IF \E k \in DOMAIN text : text[k] \in {".", ":"} THEN From(1) ELSE <<>>))

\* extract_urls: the matches of each of self.url_patterns in turn.  Every
\* pattern has a literal "." or ":" ('://' in the first, '\.' in the others),
\* so a text with neither has no match and is not scanned.
extract_urls(text) ==
    LET RECURSIVE From(_)
        From(p) ==
            IF p > Len(detector.url_patterns) THEN <<>>
            ELSE finditer(detector.url_patterns[p], text, 1) \o From(p + 1)
    IN  url_entries(text,
            IF \E k \in DOMAIN text : text[k] \in {".", ":"} THEN From(1) ELSE <<>>)

\* _analyze_text_keywords: per category, the number of its keywords found in
\* the lower-cased text times risk_score * 0.3; in tenths.
text_keyword_risk(text) ==
    LET text_lower == LowerText(text)
        category_score(c) == Cardinality({k \in keywords(c) : Contains(text_lower, k)})
        RECURSIVE Sum(_)
        Sum(cs) == IF cs = {} THEN 0
                   ELSE LET c == CHOOSE x \in cs : TRUE
                        IN  category_score(c) * (risk_score(c) * 3) + Sum(cs \ {c})
    IN  Sum(Categories)

CountChar(text, ch) == Cardinality({k \in DOMAIN text : text[k] = ch})

\* self.suspicious_nickname_patterns as __init__ sets it: the patterns
\* written in the characters of the model.  Each is searched with
\* re.IGNORECASE and is '.*word.*', which is found where the lower-cased
\* nickname contains the lower-cased word ('.*tv.*' and '.*TV.*' are two
\* patterns that match the same nicknames), but for '.*-.*-.*-.*', which is
\* found where the nickname has three hyphens.
suspicious_nickname_patterns ==
    {[pattern |-> ".*gudok.*", hyphens |-> 0, contains |-> <<"gu", "dok">>],
     [pattern |-> ".*tv.*", hyphens |-> 0, contains |-> <<"t", "v">>],
     [pattern |-> ".*TV.*", hyphens |-> 0, contains |-> <<"t", "v">>],
     [pattern |-> ".*youtube.*", hyphens |-> 0, contains |-> <<"y", "o", "u", "t", "u", "b", "e">>],
     [pattern |-> ".*\\.com.*", hyphens |-> 0, contains |-> <<".", "c", "o", "m">>],
     [pattern |-> ".*\\.kr.*", hyphens |-> 0, contains |-> <<".", "k", "r">>],
     [pattern |-> ".*www\\..*", hyphens |-> 0, contains |-> <<"w", "w", "w", ".">>],
     [pattern |-> ".*http.*", hyphens |-> 0, contains |-> <<"h", "t", "t", "p">>],
     [pattern |-> ".*adult.*", hyphens |-> 0, contains |-> <<"a", "d", "u", "l", "t">>],
     [pattern |-> ".*DOPAMIN.*", hyphens |-> 0, contains |-> <<"d", "o", "p", "a", "m", "i", "n">>],
     [pattern |-> ".*HIGH.*", hyphens |-> 0, contains |-> <<"h", "i", "g", "h">>],
     [pattern |-> ".*PAIMIUM.*", hyphens |-> 0, contains |-> <<"p", "a", "i", "m", "i", "u", "m">>],
     [pattern |-> ".*NEW.*", hyphens |-> 0, contains |-> <<"n", "e", "w">>],
     [pattern |-> ".*-.*-.*-.*", hyphens |-> 3, contains |-> <<>>]}

\* The URLSpamDetector that __init__ returns.
URLSpamDetector ==
    [suspicious_patterns |-> suspicious_patterns,
     url_patterns |-> url_patterns,
     suspicious_nickname_patterns |-> suspicious_nickname_patterns]

\* analyze_nickname: the patterns that re.search finds in the nickname
matching_nickname_patterns(nickname) ==
    {p \in detector.suspicious_nickname_patterns :
        /\ Contains(LowerText(nickname), p.contains)
        /\ CountChar(nickname, "-") >= p.hyphens}

\* analyze_nickname: +2 per matching pattern, +5 when the nickname holds a URL.
nickname_suspicion_score(nickname) ==
    2 * Cardinality(matching_nickname_patterns(nickname))
    + (IF Len(extract_urls(nickname)) > 0 THEN 5 ELSE 0)

\* categorize_risks, the body of the loop over urls: the risk_score of one
\* entry, in tenths.  The domain is the netloc of an entry that starts with
\* 'http://' or 'https://' and the whole entry otherwise; a category adds its
\* risk_score when one of its domains occurs in the domain, and half of it
\* for each of its keywords found within 50 characters around the match.
url_risk_score(url_info, comment_text) ==
    LET url == url_info.url
        StartsWith(prefix) ==
            Len(url) >= Len(prefix) /\ SubSeq(url, 1, Len(prefix)) = prefix
        AfterScheme(prefix) == SubSeq(url, Len(prefix) + 1, Len(url))
        NetLoc(rest) ==
            IF \E k \in DOMAIN rest : rest[k] = "/"
            THEN SubSeq(rest, 1, (CHOOSE k \in DOMAIN rest :
                                    /\ rest[k] = "/"
                                    /\ \A j \in 1..(k - 1) : rest[j] # "/") - 1)
            ELSE rest
        domain ==
            LowerText(IF StartsWith(<<"h", "t", "t", "p", ":", "/", "/">>)
                      THEN NetLoc(AfterScheme(<<"h", "t", "t", "p", ":", "/", "/">>))
                      ELSE IF StartsWith(<<"h", "t", "t", "p", "s", ":", "/", "/">>)
                      THEN NetLoc(AfterScheme(<<"h", "t", "t", "p", "s", ":", "/", "/">>))
                      ELSE url)
        from == IF url_info.start > 50 THEN url_info.start - 50 ELSE 0
        to == IF url_info.end + 50 < Len(comment_text)
              THEN url_info.end + 50 ELSE Len(comment_text)
        text_around_url == LowerText(SubSeq(comment_text, from + 1, to))
        category_risk(c) ==
            (IF \E d \in domains(c) : Contains(domain, d)
             THEN 10 * risk_score(c) ELSE 0)
            + Cardinality({k \in keywords(c) : Contains(text_around_url, k)})
              * (5 * risk_score(c))
        RECURSIVE Sum(_)
        Sum(cs) == IF cs = {} THEN 0
                   ELSE LET c == CHOOSE x \in cs : TRUE
                        IN  category_risk(c) + Sum(cs \ {c})
    IN  Sum(Categories)

\* categorize_risks: total_risk_score in tenths: every entry of urls, the
\* keywords of the whole text, and the nickname.
total_risk_score(urls, comment_text, author_name) ==
    LET RECURSIVE UrlSum(_)
        UrlSum(k) == IF k = 0 THEN 0
                     ELSE url_risk_score(urls[k], comment_text) + UrlSum(k - 1)
    IN  UrlSum(Len(urls))
        + text_keyword_risk(comment_text)
        + 10 * nickname_suspicion_score(author_name)

\* categorize_risks: 'is_suspicious': total_risk_score >= 6
is_suspicious(total_risk) == total_risk >= 60

\* _get_suspicion_level with the strict comparison "risk_score > 3".
get_suspicion_level_strict(risk) ==
    IF risk >= 150 THEN "high"
    ELSE IF risk >= 80 THEN "medium"
    ELSE IF risk > 30 THEN "low"
    ELSE "safe"

\* _get_suspicion_level
get_suspicion_level(risk) ==
    IF risk >= 150 THEN "high"
    ELSE IF risk >= 80 THEN "medium"
    ELSE IF risk >= 30 THEN "low"
    ELSE "safe"

\* re.findall(r'\\w+', text): the maximal runs of word characters, in order.
RECURSIVE word_runs(_)
word_runs(text) ==
    IF text = <<>> THEN <<>>
    ELSE IF ~IsWordChar(Head(text)) THEN word_runs(Tail(text))
    ELSE LET n == CHOOSE k \in 1..Len(text) :
                      /\ \A j \in 1..k : IsWordChar(text[j])
                      /\ (k = Len(text) \/ ~IsWordChar(text[k + 1]))
         IN  <<SubSeq(text, 1, n)>> \o word_runs(SubSeq(text, n + 1, Len(text)))

\* set(re.findall(r'\\w+', text.lower()))
Words(text) ==
    LET runs == word_runs(LowerText(text)) IN {runs[k] : k \in DOMAIN runs}

\* _analyze_nickname_content_combination: of its nine rules those that can
\* fire: two of the ASCII suspicious_keywords in the nickname (+6), three
\* hyphens (+5), '-' and one ASCII letter at the end (+4), more
\* than half of the nickname's words found among the comment's words (+4).
combination_score(nickname, comment_text) ==
    (IF Cardinality({w \in {<<"d", "o", "p", "a", "m", "i", "n">>,
                            <<"h", "i", "g", "h">>,
                            <<"n", "e", "w">>,
                            <<"p", "a", "i", "m", "i", "u", "m">>} :
                        Contains(LowerText(nickname), w)}) >= 2
     THEN 6 ELSE 0)
    + (IF CountChar(nickname, "-") >= 3 THEN 5 ELSE 0)
    + (IF /\ Len(nickname) >= 2
          /\ nickname[Len(nickname) - 1] = "-"
          /\ IsAsciiLetter(nickname[Len(nickname)])
       THEN 4 ELSE 0)
    + (LET nickname_words == Words(nickname)
           comment_words == Words(comment_text)
       IN  IF /\ Cardinality(nickname_words) > 0
              /\ 2 * Cardinality(nickname_words \cap comment_words)
                    > Cardinality(nickname_words)
           THEN 4 ELSE 0)

\* _analyze_additional_patterns: 'repeated_chars', (.)\\1{3,}: four equal
\* characters in a row.
repeated_chars(text) ==
    \E s \in 1..(Len(text) - 3) : \A k \in 1..3 : text[s + k] = text[s]

\* 'caps_lock_heavy': more than half of the characters are in [A-Z].
caps_lock_heavy(text) ==
    2 * Cardinality({k \in DOMAIN text : IsAsciiUpper(text[k])}) > Len(text)

\* 'name_channel_match': 'tv' in the lower-cased author name and the Hangul
\* "gu dok" in the text.
name_channel_match(comment_text, author_name) ==
    /\ Contains(LowerText(author_name), <<"t", "v">>)
    /\ Contains(LowerText(comment_text), <<"gu", "dok">>)

\* promotional_score = sum(patterns.values()); 'excessive_emojis' and
\* 'promotional_phrases' need characters the model does not have.
promotional_score(comment_text, author_name) ==
    (IF repeated_chars(comment_text) THEN 1 ELSE 0)
    + (IF caps_lock_heavy(comment_text) THEN 1 ELSE 0)
    + (IF name_channel_match(comment_text, author_name) THEN 1 ELSE 0)

\* 'is_promotional': promotional_score >= 2
is_promotional(promo) == promo >= 2

\* total_spam_score with the promotional score counted once.
total_spam_score_promo_once(risk, promo, combo) == risk + 10 * promo + 10 * combo

\* total_spam_score = total_risk_score + promotional_score * 2
\*                    + combination_score; in tenths.
total_spam_score(risk, promo, combo) == risk + 10 * (promo * 2) + 10 * combo

\* is_spam_verdict without the promotional disjunct.
is_spam_verdict_no_promotional(total, suspicious, promotional) ==
    total >= 60 \/ suspicious

\* is_spam_verdict with the strict comparison "total_spam_score > 6".
is_spam_verdict_strict(total, suspicious, promotional) ==
    total > 60 \/ suspicious \/ promotional

\* 'is_spam'
is_spam_verdict(total, suspicious, promotional) ==
    total >= 60 \/ suspicious \/ promotional

\* spam_confidence without the cap: int(total_spam_score * 4).
spam_confidence_uncapped(total) == (total * 4) \div 10

\* 'spam_confidence': min(100, int(total_spam_score * 4))
spam_confidence(total) ==
    LET c == (total * 4) \div 10 IN IF c < 100 THEN c ELSE 100

\* The dict the try block of analyze_comment returns, from the results of
\* the analyses.
verdict_of(urls, risk, promo, combo) ==
    [urls |-> urls,
     risk_analysis |->
        [total_risk_score |-> risk,
         is_suspicious |-> is_suspicious(risk),
         suspicion_level |-> get_suspicion_level(risk)],
     additional_patterns |->
        [promotional_score |-> promo,
         is_promotional |-> is_promotional(promo)],
     combination_analysis |-> [combination_score |-> combo],
     total_spam_score |-> total_spam_score(risk, promo, combo),
     is_spam |-> is_spam_verdict(total_spam_score(risk, promo, combo),
                                 is_suspicious(risk), is_promotional(promo)),
     spam_confidence |-> spam_confidence(total_spam_score(risk, promo, combo))]

\* The try block of analyze_comment, on strings (it does not raise).
analyze_comment_try(comment_text, author_name) ==
    verdict_of(extract_urls(comment_text),
               total_risk_score(extract_urls(comment_text), comment_text, author_name),
               promotional_score(comment_text, author_name),
               combination_score(author_name, comment_text))

\* The except block of analyze_comment: what it returns for any exception.
analyze_comment_except ==
    [error |-> "str(e)", is_spam |-> FALSE, spam_confidence |-> 0]

\* analyze_comment(comment_text, author_name): extract_urls runs
\* re.finditer on the text and analyze_nickname runs re.search on the author
\* name, inside the try block; both raise TypeError on a value that is not a
\* string, and the except block turns the error into a verdict.
analyze_comment(comment_text, author_name) ==
    IF IsStr(comment_text) /\ IsStr(author_name)
    THEN analyze_comment_try(comment_text, author_name)
    ELSE analyze_comment_except

(***************************************************************************)
(* CommentProcessor: the detectors.  A comment is a record                 *)
(* [comment_id, text, author, is_reply]; a group is a sequence of comments.*)
(***************************************************************************)
\* hash_groups after the first n comments: a dict in insertion order, as a
\* sequence of [hash, group].
RECURSIVE hash_groups(_, _)
hash_groups(comments, n) ==
    IF n = 0 THEN <<>>
    ELSE LET g == hash_groups(comments, n - 1)
             text_hash == calculate_text_hash(comments[n].text)
             at == {k \in DOMAIN g : g[k].hash = text_hash}
         IN  IF at = {}
             THEN Append(g, [hash |-> text_hash, group |-> <<comments[n]>>])
             ELSE LET k == CHOOSE x \in at : TRUE
                  IN  [g EXCEPT ![k].group = Append(@, comments[n])]

\* LongEnough with the strict comparison "len(group) > min_duplicate_count".
LongEnoughStrict(group, min_duplicate_count) == Len(group) > min_duplicate_count

LongEnough(group, min_duplicate_count) == Len(group) >= min_duplicate_count

detect_exact_duplicates(comments, min_duplicate_count) ==
    LET Kept(e) == LongEnough(e.group, min_duplicate_count)
    IN  SelectSeq(hash_groups(comments, Len(comments)), Kept)

\* joined_group without the similarity test: the comment joins the first
\* group there is.
joined_group_untested(similar_groups, comment, similarity_threshold) ==
    IF similar_groups = <<>> THEN 0 ELSE 1

\* joined_group without the break: the comment joins the last group whose
\* first comment is similar enough.
joined_group_last_hit(similar_groups, comment, similarity_threshold) ==
    LET hits == {k \in DOMAIN similar_groups :
                    RatioAtLeast(calculate_similarity(comment.text,
                                                      similar_groups[k][1].text),
                                 similarity_threshold)}
    IN  IF hits = {} THEN 0
        ELSE CHOOSE k \in hits : \A h \in hits : k >= h

\* The group a comment joins: the first one whose first comment is similar
\* enough (the inner loop breaks at the first hit); 0 when there is none.
joined_group(similar_groups, comment, similarity_threshold) ==
    LET hits == {k \in DOMAIN similar_groups :
                    RatioAtLeast(calculate_similarity(comment.text,
                                                      similar_groups[k][1].text),
                                 similarity_threshold)}
    IN  IF hits = {} THEN 0
        ELSE CHOOSE k \in hits : \A h \in hits : k <= h

\* placed with the comment put in front of the group it joins.
placed_in_front(similar_groups, comment, k) ==
    IF k = 0 THEN Append(similar_groups, <<comment>>)
    ELSE [similar_groups EXCEPT ![k] = <<comment>> \o @]

\* The comment appended to group k, or as a new group when k = 0.
placed(similar_groups, comment, k) ==
    IF k = 0 THEN Append(similar_groups, <<comment>>)
    ELSE [similar_groups EXCEPT ![k] = Append(@, comment)]

\* similar_step opening a group for the comment even when it joined one.
similar_step_always_opening(similar_groups, comment, similarity_threshold) ==
    IF joined_group(similar_groups, comment, similarity_threshold) = 0
    THEN Append(similar_groups, <<comment>>)
    ELSE Append(placed(similar_groups, comment,
                       joined_group(similar_groups, comment, similarity_threshold)),
                <<comment>>)

\* One pass of the outer loop of detect_similar_duplicates.
similar_step(similar_groups, comment, similarity_threshold) ==
    placed(similar_groups, comment,
           joined_group(similar_groups, comment, similarity_threshold))

\* similar_groups after the first n comments.
RECURSIVE similar_groups_after(_, _, _)
similar_groups_after(comments, n, similarity_threshold) ==
    IF n = 0 THEN <<>>
    ELSE similar_step(similar_groups_after(comments, n - 1, similarity_threshold),
                      comments[n], similarity_threshold)

\* The return statement of detect_similar_duplicates.
similar_filter(similar_groups, min_duplicate_count) ==
    LET Kept(group) == LongEnough(group, min_duplicate_count)
    IN  SelectSeq(similar_groups, Kept)

detect_similar_duplicates(comments, similarity_threshold, min_duplicate_count) ==
    similar_filter(similar_groups_after(comments, Len(comments), similarity_threshold),
                   min_duplicate_count)

(***************************************************************************)
(* CommentProcessor: the report.                                           *)
(***************************************************************************)
IdsOf(group) == [k \in DOMAIN group |-> group[k].comment_id]
\* list(set(comment['author'] for comment in group)), as the set.
AuthorsOf(group) == {group[k].author : k \in DOMAIN group}

\* comment['text'][:100] + '...' if len(comment['text']) > 100 else
\* comment['text']
text_sample_100(text) ==
    IF Len(text) > 100 THEN SubSeq(text, 1, 100) \o <<".", ".", ".">> ELSE text

\* Part 8 of analyze_spam_patterns, after the first n comments: the comments
\* whose verdict is spam, a comment whose id is already listed being skipped.
RECURSIVE url_spam_loop(_, _)
url_spam_loop(comments, n) ==
    IF n = 0 THEN [url_spam |-> 0, url_spam_details |-> <<>>]
    ELSE LET acc == url_spam_loop(comments, n - 1)
             comment == comments[n]
             listed == {acc.url_spam_details[k].comment_id :
                            k \in DOMAIN acc.url_spam_details}
         IN  IF comment.comment_id \in listed THEN acc
             ELSE LET url_analysis == analyze_comment(comment.text, comment.author)
                  IN  IF url_analysis.is_spam
                      THEN [url_spam |-> acc.url_spam + 1,
                            url_spam_details |-> Append(acc.url_spam_details,
                                [comment_id |-> comment.comment_id,
                                 author |-> comment.author,
                                 text |-> text_sample_100(comment.text),
                                 spam_confidence |-> url_analysis.spam_confidence,
                                 is_reply |-> comment.is_reply])]
                      ELSE acc

\* The score of one reply in _analyze_reply_patterns.
reply_spam_indicators(reply, regular_comments) ==
    (IF Len(preprocess_text(reply.text)) <= 2 THEN <<"very_short">> ELSE <<>>)
    \o (IF analyze_comment(reply.text, reply.author).is_spam
        THEN <<"url_spam">> ELSE <<>>)
    \o (IF \E k \in DOMAIN regular_comments :
              RatioAbove(calculate_similarity(reply.text, regular_comments[k].text), 80)
        THEN <<"similar_to_main_comment">> ELSE <<>>)

indicator_score(indicator) ==
    CASE indicator = "very_short" -> 3
      [] indicator = "url_spam" -> 6
      [] indicator = "similar_to_main_comment" -> 5

RECURSIVE reply_spam_score(_)
reply_spam_score(indicators) ==
    IF indicators = <<>> THEN 0
    ELSE indicator_score(Head(indicators)) + reply_spam_score(Tail(indicators))

\* reply_is_flagged with the bound "spam_score >= 3".
reply_is_flagged_from_three(spam_score) == spam_score >= 3

\* if spam_score >= 5
reply_is_flagged(spam_score) == spam_score >= 5

IsReply(comment) == comment.is_reply
IsRegular(comment) == ~comment.is_reply

\* One entry of reply_spam_details.
reply_spam_detail(reply, spam_indicators) ==
    [comment_id |-> reply.comment_id,
     author |-> reply.author,
     text |-> text_sample_100(reply.text),
     spam_score |-> reply_spam_score(spam_indicators),
     spam_indicators |-> spam_indicators]

\* One entry of reply_duplicate_patterns.
reply_duplicate_pattern(group) ==
    [text_sample |-> group[1].text,
     duplicate_count |-> Len(group),
     authors |-> AuthorsOf(group)]

\* The dict _analyze_reply_patterns returns when there are replies.
reply_patterns_of(flagged, regular_comments, reply_duplicates) ==
    [reply_spam_count |-> Len(flagged),
     reply_spam_details |->
        [k \in DOMAIN flagged |->
            reply_spam_detail(flagged[k],
                              reply_spam_indicators(flagged[k], regular_comments))],
     reply_chain_spam |-> 0,
     reply_duplicate_patterns |->
        [k \in DOMAIN reply_duplicates |->
            reply_duplicate_pattern(reply_duplicates[k].group)]]

_analyze_reply_patterns(comments, min_duplicate_count) ==
    LET replies == SelectSeq(comments, IsReply)
        regular_comments == SelectSeq(comments, IsRegular)
        Flagged(reply) ==
            reply_is_flagged(reply_spam_score(reply_spam_indicators(reply, regular_comments)))
    IN  IF replies = <<>>
        THEN [reply_spam_count |-> 0, reply_spam_details |-> <<>>,
              reply_chain_spam |-> 0, reply_duplicate_patterns |-> <<>>]
        ELSE reply_patterns_of(SelectSeq(replies, Flagged), regular_comments,
                               detect_exact_duplicates(replies, min_duplicate_count))

\* emoji_pattern.match: the whole text is emoji and whitespace (the empty
\* text included); the model has no emoji.
emoji_only(text) == \A k \in DOMAIN text : IsSpace(text[k])

\* link_pattern.search: 'http://' or 'https://' and one more character; the
\* model has no ":" and no "/".
contains_link(text) == Contains(text, <<"h", "t", "t", "p", ":", "/", "/">>)

\* The words of ' '.join(texts), lower-cased, in order.
RECURSIVE all_words(_)
all_words(comments) ==
    IF comments = <<>> THEN <<>>
    ELSE word_runs(LowerText(Head(comments).text)) \o all_words(Tail(comments))

\* most_common(10) filtered by count >= 5 and len(word) > 2, as a set: the
\* lists of the model hold fewer than ten distinct words.
common_phrases(comments) ==
    LET words == all_words(comments)
        count(w) == Cardinality({k \in DOMAIN words : words[k] = w})
    IN  {[phrase |-> w, count |-> count(w)] :
            w \in {words[k] : k \in {j \in DOMAIN words :
                        count(words[j]) >= 5 /\ Len(words[j]) > 2}}}

\* The dict analyze_spam_patterns returns, from the results of its parts.
spam_patterns_of(comments, exact_duplicates, similar_groups, url, reply_patterns) ==
    [exact_duplicates |-> Len(exact_duplicates),
     similar_groups |-> Len(similar_groups),
     suspicious_authors |-> <<>>,
     common_phrases |-> common_phrases(comments),
     short_repetitive |->
        Cardinality({k \in DOMAIN comments :
                        Len(preprocess_text(comments[k].text)) <= 3}),
     emoji_spam |->
        Cardinality({k \in DOMAIN comments : emoji_only(comments[k].text)}),
     link_spam |->
        Cardinality({k \in DOMAIN comments : contains_link(comments[k].text)}),
     url_spam |-> url.url_spam,
     url_spam_details |-> url.url_spam_details,
     reply_spam_count |-> reply_patterns.reply_spam_count,
     reply_spam_details |-> reply_patterns.reply_spam_details,
     reply_chain_spam |-> reply_patterns.reply_chain_spam,
     reply_duplicate_patterns |-> reply_patterns.reply_duplicate_patterns]

analyze_spam_patterns(comments, similarity_threshold, min_duplicate_count) ==
    spam_patterns_of(comments,
        detect_exact_duplicates(comments, min_duplicate_count),
        detect_similar_duplicates(comments, similarity_threshold, min_duplicate_count),
        url_spam_loop(comments, Len(comments)),
        _analyze_reply_patterns(comments, min_duplicate_count))

\* One entry of duplicate_groups['exact_duplicates']['groups'].
exact_group_entry(group) ==
    [text_sample |-> group[1].text,
     duplicate_count |-> Len(group),
     comment_ids |-> IdsOf(group),
     authors |-> AuthorsOf(group)]

\* One entry of similarity_samples.
similarity_sample(representative, comment) ==
    [text |-> comment.text,
     similarity |-> calculate_similarity(representative.text, comment.text)]

\* One entry of duplicate_groups['similar_groups']['groups']; the samples are
\* group[1:3].
similar_group_entry(group) ==
    LET samples == SubSeq(group, 2, IF Len(group) < 3 THEN Len(group) ELSE 3)
    IN  [representative_text |-> group[1].text,
         similar_count |-> Len(group),
         comment_ids |-> IdsOf(group),
         authors |-> AuthorsOf(group),
         similarity_samples |->
            [j \in DOMAIN samples |-> similarity_sample(group[1], samples[j])]]

\* The dict get_duplicate_groups returns, from the results of the detectors.
duplicate_groups_of(exact_duplicates, similar_groups) ==
    [exact_duplicates |->
        [count |-> Len(exact_duplicates),
         groups |-> [k \in DOMAIN exact_duplicates |->
                        exact_group_entry(exact_duplicates[k].group)]],
     similar_groups |->
        [count |-> Len(similar_groups),
         groups |-> [k \in DOMAIN similar_groups |->
                        similar_group_entry(similar_groups[k])]]]

get_duplicate_groups(comments, similarity_threshold, min_duplicate_count) ==
    duplicate_groups_of(
        detect_exact_duplicates(comments, min_duplicate_count),
        detect_similar_duplicates(comments, similarity_threshold, min_duplicate_count))

\* The ids of the comments of a list of groups.
group_member_ids(groups) ==
    UNION {{groups[k][j].comment_id : j \in DOMAIN groups[k]} : k \in DOMAIN groups}

\* hash_groups without the hashes.
groups_of(exact_duplicates) == [k \in DOMAIN exact_duplicates |-> exact_duplicates[k].group]

detail_ids(details) == {details[k].comment_id : k \in DOMAIN details}

\* The four sources of get_suspicious_comment_ids, each as a set of ids.
exact_duplicate_ids(comments, min_duplicate_count) ==
    group_member_ids(groups_of(detect_exact_duplicates(comments, min_duplicate_count)))

similar_group_ids(comments, similarity_threshold, min_duplicate_count) ==
    group_member_ids(detect_similar_duplicates(comments, similarity_threshold,
                                               min_duplicate_count))

url_spam_ids(comments) ==
    {comments[k].comment_id :
        k \in {j \in DOMAIN comments :
                  analyze_comment(comments[j].text, comments[j].author).is_spam}}

reply_spam_ids(comments, similarity_threshold, min_duplicate_count) ==
    detail_ids(analyze_spam_patterns(comments, similarity_threshold,
                                     min_duplicate_count).reply_spam_details)

\* suspicious_id_set without the per-comment spam verdicts.
suspicious_id_set_no_verdicts(comments, similarity_threshold, min_duplicate_count) ==
    exact_duplicate_ids(comments, min_duplicate_count)
    \cup similar_group_ids(comments, similarity_threshold, min_duplicate_count)
    \cup reply_spam_ids(comments, similarity_threshold, min_duplicate_count)

\* The set suspicious_ids of get_suspicious_comment_ids before list().
suspicious_id_set(comments, similarity_threshold, min_duplicate_count) ==
    exact_duplicate_ids(comments, min_duplicate_count)
    \cup similar_group_ids(comments, similarity_threshold, min_duplicate_count)
    \cup url_spam_ids(comments)
    \cup reply_spam_ids(comments, similarity_threshold, min_duplicate_count)

\* The lists a plain list would hold had the ids been appended to it rather
\* than added to a set: every element at least once, one of them twice.
ListsOf_appended(S) ==
    {f \in [1..Cardinality(S) + 1 -> S] : \A x \in S : \E k \in DOMAIN f : f[k] = x}

\* list(suspicious_ids): every element once, in an order the set's hashing
\* decides; every order is possible.
ListsOf(S) ==
    {f \in [1..Cardinality(S) -> S] : \A x \in S : \E k \in DOMAIN f : f[k] = x}

\* empty_report with a suspicious_count that is not zero.
empty_report_counting ==
    [total_comments |-> 0,
     suspicious_count |-> 1,
     duplicate_groups |->
        [exact_duplicates |-> [count |-> 0, groups |-> <<>>],
         similar_groups |-> [count |-> 0, groups |-> <<>>]],
     spam_patterns |-> <<>>,
     suspicious_comment_ids |-> <<>>]

\* The report of process_comments on an empty list: 'spam_patterns' is {} and
\* there is no 'processing_summary'.
empty_report ==
    [total_comments |-> 0,
     suspicious_count |-> 0,
     duplicate_groups |->
        [exact_duplicates |-> [count |-> 0, groups |-> <<>>],
         similar_groups |-> [count |-> 0, groups |-> <<>>]],
     spam_patterns |-> <<>>,
     suspicious_comment_ids |-> <<>>]

\* The report process_comments builds from the results of its three calls.
report_of(comments, spam_patterns, duplicate_groups, suspicious_ids) ==
    [total_comments |-> Len(comments),
     suspicious_count |-> Len(suspicious_ids),
     duplicate_groups |-> duplicate_groups,
     spam_patterns |-> spam_patterns,
     suspicious_comment_ids |-> suspicious_ids,
     processing_summary |->
        [exact_duplicate_groups |-> duplicate_groups.exact_duplicates.count,
         similar_groups |-> duplicate_groups.similar_groups.count,
         spam_indicators |->
            [short_repetitive |-> spam_patterns.short_repetitive,
             emoji_only |-> spam_patterns.emoji_spam,
             contains_links |-> spam_patterns.link_spam,
             url_spam |-> spam_patterns.url_spam]]]

\* process_comments, suspicious_ids being the list get_suspicious_comment_ids
\* returned.
process_comments(comments, similarity_threshold, min_duplicate_count, suspicious_ids) ==
    IF comments = <<>> THEN empty_report
    ELSE report_of(comments,
            analyze_spam_patterns(comments, similarity_threshold, min_duplicate_count),
            get_duplicate_groups(comments, similarity_threshold, min_duplicate_count),
            suspicious_ids)

\* The exception that leaves process_comments on a non-empty list, "none"
\* when it returns.  detect_exact_duplicates comes first and reads
\* comment['text'] of every comment in turn (KeyError on a dict without the
\* key, AttributeError from text.lower() on an int; None is falsy and
\* normalizes to ''); then emoji_pattern.match(comment['text']) raises
\* TypeError on None; then the URL loop reads comment['author'] (KeyError).
\* An author that is None or an int raises only inside analyze_comment.
process_comments_raises(comments) ==
    LET unreadable == {k \in DOMAIN comments :
                          comments[k].text \in {MissingKey, NotAString}}
    IN  IF comments = <<>> THEN "none"
        ELSE IF unreadable # {}
        THEN LET k == CHOOSE x \in unreadable : \A y \in unreadable : x <= y
             IN  IF comments[k].text = MissingKey THEN "KeyError"
                 ELSE "AttributeError"
        ELSE IF \E k \in DOMAIN comments : comments[k].text = NoneText
        THEN "TypeError"
        ELSE IF \E k \in DOMAIN comments : comments[k].author = MissingKey
        THEN "KeyError"
        ELSE "none"

\* The number of comments the URL loop of analyze_spam_patterns gets through:
\* none when an earlier part raises, those before the first comment without
\* an author when the loop raises, all of them otherwise.
url_loop_reach(comments) ==
    LET no_author == {k \in DOMAIN comments : comments[k].author = MissingKey}
    IN  IF process_comments_raises(comments) = "none" THEN Len(comments)
        ELSE IF \E k \in DOMAIN comments : ~IsStr(comments[k].text) THEN 0
        ELSE (CHOOSE x \in no_author : \A y \in no_author : x <= y) - 1

\* with_url_analysis storing the normalized text back into the dict as well.
with_url_analysis_normalizing(comment) ==
    [f \in DOMAIN comment \cup {"_url_analysis"} |->
        IF f = "_url_analysis" THEN analyze_comment(comment.text, comment.author)
        ELSE IF f = "text" THEN preprocess_text(comment.text)
        ELSE comment[f]]

\* comment['_url_analysis'] = url_analysis: the dict with the key set.
with_url_analysis(comment) ==
    [f \in DOMAIN comment \cup {"_url_analysis"} |->
        IF f = "_url_analysis" THEN analyze_comment(comment.text, comment.author)
        ELSE comment[f]]

\* Whether the URL loop of analyze_spam_patterns analyses comment k: it does
\* when it gets that far, but for a comment whose id is already listed as
\* spam, which is skipped.
url_loop_analyses(comments, k) ==
    /\ k <= url_loop_reach(comments)
    /\ comments[k].comment_id \notin
            detail_ids(url_spam_loop(comments, k - 1).url_spam_details)

\* The caller's list after process_comments: the URL loop annotates every
\* comment it analyses.
annotated(comments) ==
    [k \in DOMAIN comments |->
        IF url_loop_analyses(comments, k)
        THEN with_url_analysis(comments[k])
        ELSE comments[k]]

\* The calls of url_spam_detector.analyze_comment that one pass of
\* analyze_spam_patterns makes on comment k: one in the URL loop, and one
\* more in _analyze_reply_patterns for a reply.
calls_per_pass(comments, k) ==
    (IF url_loop_analyses(comments, k) THEN 1 ELSE 0)
    + (IF comments[k].is_reply THEN 1 ELSE 0)

\* The calls of url_spam_detector.analyze_comment on comment k within one
\* process_comments: analyze_spam_patterns runs from process_comments and
\* again from get_suspicious_comment_ids, which also analyses every comment
\* in its own loop.  process_comments raises only in the first
\* analyze_spam_patterns, before the reply pass.
calls_of_analyze_comment(comments, k) ==
    IF process_comments_raises(comments) = "none"
    THEN 2 * calls_per_pass(comments, k) + 1
    ELSE IF url_loop_analyses(comments, k) THEN 1 ELSE 0


(***************************************************************************)
(* Inputs of the model.                                                    *)
(***************************************************************************)
\* The comments the lists are drawn from: texts that normalize to the same
\* text ("bc", "BC!"), to near ones ("a", "abc", "bc") and to the empty text
\* ("!"), plain and suspicious authors, replies and top-level comments.
CommentPool ==
    {[text |-> <<"a">>,                author |-> <<"u">>,                is_reply |-> FALSE],
     [text |-> <<"a", "b", "c">>,      author |-> <<"u">>,                is_reply |-> FALSE],
     [text |-> <<"b", "c">>,           author |-> <<"u">>,                is_reply |-> FALSE],
     [text |-> <<"B", "C", "!">>,      author |-> <<"u">>,                is_reply |-> TRUE],
     [text |-> <<"!">>,                author |-> <<"u">>,                is_reply |-> TRUE],
     [text |-> <<"A", "A", "A", "A">>, author |-> <<"u">>,                is_reply |-> FALSE],
     [text |-> <<"b", "c">>,           author |-> <<"t", "v", "-", "a">>, is_reply |-> FALSE],
     [text |-> <<"a">>,                author |-> <<"-", "-", "-">>,      is_reply |-> TRUE]}

\* comment_id: the position in the list (unique).
WithIds(list) ==
    [k \in DOMAIN list |->
        [comment_id |-> k, text |-> list[k].text, author |-> list[k].author,
         is_reply |-> list[k].is_reply]]

CommentLists == {WithIds(l) : l \in UNION {[1..n -> CommentPool] : n \in 0..MaxComments}}

\* similarity_threshold in percent (the default is 0.8) and
\* min_duplicate_count (the default is 3); the processor itself accepts any
\* value.
Thresholds == {0, 50, 80, 100, 120}
MinCounts == {1, 2, 3}

NoResult == [method |-> "none", value |-> <<>>]
NoVerdict == [is_spam |-> FALSE, none |-> TRUE]
\* No call of _download_comments_sync.
NoDownload == [pc |-> "idle", limit |-> <<>>, source |-> <<>>, pulled |-> 0,
               comments |-> <<>>]

(***************************************************************************)
(* The methods of CommentProcessor, called on a list.                      *)
(***************************************************************************)
Init ==
    /\ processor \in [similarity_threshold : Thresholds, min_duplicate_count : MinCounts]
    /\ comment_list \in CommentLists
    /\ pc = "ready"
    /\ processed = 0
    /\ open_groups = <<>>
    /\ result = NoResult
    /\ arg_text = <<>>
    /\ arg_text2 = <<>>
    /\ arg_author = <<>>
    /\ verdict = NoVerdict
    /\ requests = <<>>
    /\ download = NoDownload
    /\ analyze_calls = <<>>
    /\ detector = URLSpamDetector

DetectExactDuplicates ==
    /\ pc = "ready"
    /\ result' = [method |-> "detect_exact_duplicates",
                  value |-> detect_exact_duplicates(comment_list, processor.min_duplicate_count)]
    /\ pc' = "returned"
    /\ UNCHANGED <<processor, comment_list, processed, open_groups,
                   arg_text, arg_text2, arg_author, verdict, requests,
                   download, analyze_calls, detector>>

DetectSimilarBegin ==
    /\ pc = "ready"
    /\ pc' = "similar_loop"
    /\ processed' = 0
    /\ open_groups' = <<>>
    /\ UNCHANGED <<processor, comment_list, result,
                   arg_text, arg_text2, arg_author, verdict, requests,
                   download, analyze_calls, detector>>

DetectSimilarStep ==
    /\ pc = "similar_loop"
    /\ processed < Len(comment_list)
    /\ open_groups' = similar_step(open_groups, comment_list[processed + 1],
                                      processor.similarity_threshold)
    /\ processed' = processed + 1
    /\ UNCHANGED <<processor, comment_list, pc, result,
                   arg_text, arg_text2, arg_author, verdict, requests,
                   download, analyze_calls, detector>>

DetectSimilarReturn ==
    /\ pc = "similar_loop"
    /\ processed = Len(comment_list)
    /\ result' = [method |-> "detect_similar_duplicates",
                  value |-> similar_filter(open_groups, processor.min_duplicate_count)]
    /\ pc' = "returned"
    /\ UNCHANGED <<processor, comment_list, processed, open_groups,
                   arg_text, arg_text2, arg_author, verdict, requests,
                   download, analyze_calls, detector>>

ProcessComments ==
    /\ pc = "ready"
    /\ IF process_comments_raises(comment_list) = "none"
       THEN \E suspicious_ids \in ListsOf(suspicious_id_set(comment_list,
                                     processor.similarity_threshold,
                                     processor.min_duplicate_count)) :
               result' = [method |-> "process_comments",
                          value |-> process_comments(comment_list,
                                        processor.similarity_threshold,
                                        processor.min_duplicate_count, suspicious_ids)]
       ELSE result' = [method |-> "process_comments",
                       exception |-> process_comments_raises(comment_list)]
    /\ comment_list' = annotated(comment_list)
    /\ analyze_calls' = [k \in DOMAIN comment_list |->
                            calls_of_analyze_comment(comment_list, k)]
    /\ pc' = "returned"
    /\ UNCHANGED <<processor, processed, open_groups,
                   arg_text, arg_text2, arg_author, verdict, requests,
                   download, detector>>

Next ==
    \/ DetectExactDuplicates
    \/ DetectSimilarBegin
    \/ DetectSimilarStep
    \/ DetectSimilarReturn
    \/ ProcessComments

Spec == Init /\ [][Next]_vars

(***************************************************************************)
(* process_comments, called on records that lack a field or hold a value   *)
(* that is not a string, next to well-formed ones: among them two texts    *)
(* whose similarity depends on the order of the arguments.                 *)
(***************************************************************************)
RecordPool ==
    {[text |-> <<"a">>,                author |-> <<"u">>,     is_reply |-> FALSE],
     [text |-> <<"A", "A", "A", "A">>, author |-> <<>>,        is_reply |-> FALSE],
     [text |-> MissingKey,             author |-> <<"u">>,     is_reply |-> FALSE],
     [text |-> NoneText,               author |-> <<"u">>,     is_reply |-> FALSE],
     [text |-> <<"a">>,                author |-> MissingKey,  is_reply |-> FALSE],
     [text |-> <<"A", "A", "A", "A">>, author |-> NoneText,    is_reply |-> FALSE],
     [text |-> <<"A", "A", "A", "A">>, author |-> NotAString,  is_reply |-> TRUE],
     [text |-> <<"a", "b", "c">>,      author |-> <<"u">>,     is_reply |-> FALSE],
     [text |-> <<"c", "a", "c">>,      author |-> <<"u">>,     is_reply |-> FALSE]}

RecordLists == {WithIds(l) : l \in UNION {[1..n -> RecordPool] : n \in 0..MaxComments}}

InitRecords ==
    /\ processor \in [similarity_threshold : {50, 80}, min_duplicate_count : {2, 3}]
    /\ comment_list \in RecordLists
    /\ pc = "ready"
    /\ processed = 0
    /\ open_groups = <<>>
    /\ result = NoResult
    /\ arg_text = <<>>
    /\ arg_text2 = <<>>
    /\ arg_author = <<>>
    /\ verdict = NoVerdict
    /\ requests = <<>>
    /\ download = NoDownload
    /\ analyze_calls = <<>>
    /\ detector = URLSpamDetector

NextRecords == ProcessComments

SpecRecords == InitRecords /\ [][NextRecords]_vars

(***************************************************************************)
(* URLSpamDetector.analyze_comment, called on a text and an author name.   *)
(***************************************************************************)
SpamAlphabet == {"x", "a", "A", " ", "gu", "dok"}
\* Longer texts holding several keywords, for the higher scores.
KeywordTexts ==
    {<<"x", "x", "x", "gu", "dok">>,
     <<"x", "x", "x", "b", "e", "t", "gu", "dok">>}
\* Comments with links: texts that one or two of the url_patterns match, at
\* equal and at different offsets, once or twice.
UrlTexts ==
    {<<"w", "w", "w", ".", "x", "n", "x", "x", ".", "c", "o", "m">>,
     <<"t", "i", "n", "y", "u", "r", "l", ".", "c", "o", "m", "/", "a">>,
     <<"a", " ", "b", "i", "t", ".", "l", "y", "/", "x">>,
     <<"h", "t", "t", "p", ":", "/", "/", "b", "e", "t", ".", "k", "r", " ", "x", "x", "x">>,
     <<"y", "o", "u", "t", "u", ".", "b", "e", "/", "a">>,
     <<"x", " ", "w", "w", "w", ".", "a", ".", "k", "r">>,
     <<"h", "t", "t", "p", "s", ":", "/", "/", "a", ".", "k", "r", "/", "b">>,
     <<"h", "t", "t", "p", ":", "/", "/", "a", ".", "b">>,
     <<"c", "a", "s", "i", "n", "o", ".", "c", "o", "m">>,
     <<"b", "e", "t", " ", "a", ".", "k", "r", " ", "b", ".", "k", "r">>}
SpamTexts ==
    UNION {[1..n -> SpamAlphabet] : n \in 0..MaxTextLen} \cup KeywordTexts \cup UrlTexts
AuthorNames ==
    {<<"u">>, <<"a">>, <<"t", "v">>, <<"gu", "dok">>, <<"-", "-", "-">>,
     <<"a", "-", "x">>, <<"t", "v", "-", "a">>,
     <<"t", "v", "-", "gu", "dok", "-", "-">>,
     <<"t", "v", "-", "gu", "dok", "-", "-", "a">>,
     <<"a", ".", "k", "r">>, <<"n", "e", "w", "h", "i", "g", "h">>}

InitSpam ==
    /\ arg_text \in SpamTexts
    /\ arg_text2 = <<>>
    /\ arg_author \in AuthorNames
    /\ verdict = NoVerdict
    /\ processor = [similarity_threshold |-> 80, min_duplicate_count |-> 3]
    /\ comment_list = <<>>
    /\ pc = "ready"
    /\ processed = 0
    /\ open_groups = <<>>
    /\ result = NoResult
    /\ requests = <<>>
    /\ download = NoDownload
    /\ analyze_calls = <<>>
    /\ detector = URLSpamDetector

AnalyzeComment ==
    /\ pc = "ready"
    /\ verdict' = analyze_comment(arg_text, arg_author)
    /\ pc' = "returned"
    /\ UNCHANGED <<processor, comment_list, processed, open_groups, result,
                   arg_text, arg_text2, arg_author, requests,
                   download, analyze_calls, detector>>

NextSpam == AnalyzeComment

SpecSpam == InitSpam /\ [][NextSpam]_vars

(***************************************************************************)
(* preprocess_text and calculate_similarity, called on texts.              *)
(***************************************************************************)
\* Longest text handed to the two functions.
MaxSimLen == 3
SimAlphabet == {"a", "b", "c", "A", " ", "!"}
SimTexts == UNION {[1..n -> SimAlphabet] : n \in 0..MaxSimLen} \cup {NoneText}

InitText ==
    /\ arg_text \in SimTexts
    /\ arg_text2 \in SimTexts
    /\ arg_author = <<>>
    /\ verdict = NoVerdict
    /\ processor = [similarity_threshold |-> 80, min_duplicate_count |-> 3]
    /\ comment_list = <<>>
    /\ pc = "ready"
    /\ processed = 0
    /\ open_groups = <<>>
    /\ result = NoResult
    /\ requests = <<>>
    /\ download = NoDownload
    /\ analyze_calls = <<>>
    /\ detector = URLSpamDetector

PreprocessText ==
    /\ pc = "ready"
    /\ result' = [method |-> "preprocess_text", value |-> preprocess_text(arg_text)]
    /\ pc' = "returned"
    /\ UNCHANGED <<processor, comment_list, processed, open_groups,
                   arg_text, arg_text2, arg_author, verdict, requests,
                   download, analyze_calls, detector>>

CalculateSimilarity ==
    /\ pc = "ready"
    /\ result' = [method |-> "calculate_similarity",
                  value |-> calculate_similarity(arg_text, arg_text2)]
    /\ pc' = "returned"
    /\ UNCHANGED <<processor, comment_list, processed, open_groups,
                   arg_text, arg_text2, arg_author, verdict, requests,
                   download, analyze_calls, detector>>

NextText ==
    \/ PreprocessText
    \/ CalculateSimilarity

SpecText == InitText /\ [][NextText]_vars

(***************************************************************************)
(* The /processor routes: one module-level CommentProcessor shared by every *)
(* request; a handler runs without interruption except at an await.        *)
(***************************************************************************)
\* An Optional value: <<>> is None, <<v>> is v.
None == <<>>
Some(v) == <<v>>

RequestIds == 1..MaxRequests

\* What a request may carry: null, values in range, values out of range.
RequestThresholds == {None, Some(50), Some(80), Some(150)}
RequestMinCounts == {None, Some(2), Some(1)}
RequestComments ==
    {<<>>,
     WithIds(<<[text |-> <<"a">>, author |-> <<"u">>, is_reply |-> FALSE],
               [text |-> <<"a", "b", "c">>, author |-> <<"u">>, is_reply |-> FALSE],
               [text |-> <<"b", "c">>, author |-> <<"u">>, is_reply |-> FALSE]>>)}

IdleRequest ==
    [route |-> "none", pc |-> "idle", similarity_threshold |-> None,
     min_duplicate_count |-> None, body |-> <<>>, status |-> 0,
     used |-> None, report |-> None]

\* Field(..., ge=0.0, le=1.0) and Field(..., ge=2) of CommentProcessRequest and
\* AnalyzeCommentsRequest; None passes.
threshold_field_ok(t) == IF t = None THEN TRUE ELSE 0 <= t[1] /\ t[1] <= 100
min_count_field_ok(m) == IF m = None THEN TRUE ELSE m[1] >= 2

\* "if request.x is not None: processor.x = request.x", for both settings.
apply_request_settings(p, t, m) ==
    [similarity_threshold |-> IF t # None THEN t[1] ELSE p.similarity_threshold,
     min_duplicate_count |-> IF m # None THEN m[1] ELSE p.min_duplicate_count]

\* The reports process_comments may return with the processor as it is.
reports_of(p, body) ==
    {process_comments(body, p.similarity_threshold, p.min_duplicate_count, ids) :
        ids \in ListsOf(suspicious_id_set(body, p.similarity_threshold,
                                          p.min_duplicate_count))}

InitApi ==
    /\ processor = [similarity_threshold |-> 80, min_duplicate_count |-> 3]
    /\ requests = [r \in RequestIds |-> IdleRequest]
    /\ download = NoDownload
    /\ analyze_calls = <<>>
    /\ detector = URLSpamDetector
    /\ comment_list = <<>>
    /\ pc = "ready"
    /\ processed = 0
    /\ open_groups = <<>>
    /\ result = NoResult
    /\ arg_text = <<>>
    /\ arg_text2 = <<>>
    /\ arg_author = <<>>
    /\ verdict = NoVerdict

ApiUnchanged ==
    UNCHANGED <<comment_list, pc, processed, open_groups, result,
                arg_text, arg_text2, arg_author, verdict, download, analyze_calls, detector>>

\* A request body that fails the model's validation: 422, no handler runs.
RejectInvalidBody(r, route, t, m) ==
    /\ requests[r].pc = "idle"
    /\ route \in {"analyze-video", "analyze-comments"}
    /\ ~(threshold_field_ok(t) /\ min_count_field_ok(m))
    /\ requests' = [requests EXCEPT ![r] =
            [@ EXCEPT !.route = route, !.pc = "done", !.similarity_threshold = t,
                      !.min_duplicate_count = m, !.status = 422]]
    /\ UNCHANGED processor
    /\ ApiUnchanged

\* POST /processor/analyze-video up to "await download_comments": a URL with
\* no video id is a ValueError (400); otherwise the settings are installed
\* and the download starts.
AnalyzeVideoBegin(r, t, m, url_ok) ==
    /\ requests[r].pc = "idle"
    /\ threshold_field_ok(t) /\ min_count_field_ok(m)
    /\ IF ~url_ok
       THEN /\ requests' = [requests EXCEPT ![r] =
                    [@ EXCEPT !.route = "analyze-video", !.pc = "done",
                              !.similarity_threshold = t,
                              !.min_duplicate_count = m, !.status = 400]]
            /\ UNCHANGED processor
       ELSE /\ processor' = apply_request_settings(processor, t, m)
            /\ requests' = [requests EXCEPT ![r] =
                    [@ EXCEPT !.route = "analyze-video", !.pc = "downloading",
                              !.similarity_threshold = t,
                              !.min_duplicate_count = m]]
    /\ ApiUnchanged

\* The download fails: "except Exception" answers 500.
AnalyzeVideoDownloadFails(r) ==
    /\ requests[r].pc = "downloading"
    /\ requests' = [requests EXCEPT ![r] = [@ EXCEPT !.pc = "done", !.status = 500]]
    /\ UNCHANGED processor
    /\ ApiUnchanged

\* The download returns: no comments give the zero response, otherwise
\* processor.process_comments(comments) runs with the processor as it is now.
AnalyzeVideoResume(r, downloaded) ==
    /\ requests[r].pc = "downloading"
    /\ IF downloaded = <<>>
       THEN requests' = [requests EXCEPT ![r] =
                [@ EXCEPT !.pc = "done", !.body = downloaded, !.status = 200]]
       ELSE \E report \in reports_of(processor, downloaded) :
                requests' = [requests EXCEPT ![r] =
                    [@ EXCEPT !.pc = "done", !.body = downloaded, !.status = 200,
                              !.used = Some(processor), !.report = Some(report)]]
    /\ UNCHANGED processor
    /\ ApiUnchanged

\* POST /processor/analyze-comments: the whole handler (it has no await).
AnalyzeComments(r, t, m, body) ==
    LET installed == apply_request_settings(processor, t, m)
    IN  /\ requests[r].pc = "idle"
        /\ threshold_field_ok(t) /\ min_count_field_ok(m)
        /\ IF body = <<>>
           THEN /\ requests' = [requests EXCEPT ![r] =
                        [@ EXCEPT !.route = "analyze-comments", !.pc = "done",
                                  !.similarity_threshold = t,
                                  !.min_duplicate_count = m, !.status = 400]]
                /\ UNCHANGED processor
           ELSE /\ processor' = installed
                /\ \E report \in reports_of(installed, body) :
                    requests' = [requests EXCEPT ![r] =
                        [@ EXCEPT !.route = "analyze-comments", !.pc = "done",
                                  !.similarity_threshold = t,
                                  !.min_duplicate_count = m, !.body = body,
                                  !.status = 200, !.used = Some(installed),
                                  !.report = Some(report)]]
        /\ ApiUnchanged

\* PUT /processor/settings: each supplied value is checked and installed in
\* turn; a ValueError answers 400.
\* settings_min_count_ok with the bound "min_duplicate_count < 1".
settings_min_count_positive(m) == m >= 1

settings_threshold_ok(t) == 0 <= t /\ t <= 100
settings_min_count_ok(m) == m >= 2

UpdateSettings(r, t, m) ==
    LET threshold_raises == t # None /\ ~settings_threshold_ok(t[1])
        after_threshold ==
            IF t # None /\ ~threshold_raises
            THEN [processor EXCEPT !.similarity_threshold = t[1]]
            ELSE processor
        min_count_raises == ~threshold_raises /\ m # None /\ ~settings_min_count_ok(m[1])
        after_min_count ==
            IF ~threshold_raises /\ m # None /\ ~min_count_raises
            THEN [after_threshold EXCEPT !.min_duplicate_count = m[1]]
            ELSE after_threshold
    IN  /\ requests[r].pc = "idle"
        /\ processor' = after_min_count
        /\ requests' = [requests EXCEPT ![r] =
                [@ EXCEPT !.route = "settings", !.pc = "done",
                          !.similarity_threshold = t, !.min_duplicate_count = m,
                          !.status = IF threshold_raises \/ min_count_raises
                                     THEN 400 ELSE 200]]
        /\ ApiUnchanged

NextApi ==
    \E r \in RequestIds :
        \/ \E route \in {"analyze-video", "analyze-comments"},
              t \in RequestThresholds, m \in RequestMinCounts :
                RejectInvalidBody(r, route, t, m)
        \/ \E t \in RequestThresholds, m \in RequestMinCounts, url_ok \in BOOLEAN :
                AnalyzeVideoBegin(r, t, m, url_ok)
        \/ AnalyzeVideoDownloadFails(r)
        \/ \E downloaded \in RequestComments : AnalyzeVideoResume(r, downloaded)
        \/ \E t \in RequestThresholds, m \in RequestMinCounts,
              body \in RequestComments : AnalyzeComments(r, t, m, body)
        \/ \E t \in RequestThresholds, m \in RequestMinCounts : UpdateSettings(r, t, m)

SpecApi == InitApi /\ [][NextApi]_vars

(***************************************************************************)
(* YouTubeCommentDownloaderService._download_comments_sync: the loop over  *)
(* the comment generator of the downloader library.                        *)
(***************************************************************************)
\* Most comments the source produces.
MaxSource == 3

\* What the generator yields: a dict with 'cid', 'text' and, for a reply,
\* 'parent'.
RawComments ==
    [cid : {"c1", "c2"}, text : {<<"a">>}, parent : {None}]
    \cup [cid : {"c3"}, text : {<<"b", "c">>}, parent : {Some("c1")}]
Sources == UNION {[1..n -> RawComments] : n \in 0..MaxSource}

\* limit: None (no limit) or an int; the request models put no bound on it.
Limits == {None, Some(-1), Some(0), Some(1), Some(2), Some(3)}

\* _process_comment: the dict the service builds from a raw comment.
_process_comment(comment) ==
    [comment_id |-> comment.cid,
     text |-> comment.text,
     is_reply |-> comment.parent # None,
     parent_id |-> IF comment.parent # None THEN comment.parent[1] ELSE None,
     raw_data |-> comment]

\* "limit and len(comments) >= limit": None and 0 are falsy.
limit_reached(limit, comments) ==
    IF limit = None THEN FALSE
    ELSE limit[1] # 0 /\ Len(comments) >= limit[1]

InitDownload ==
    /\ download \in [pc : {"loop"}, limit : Limits, source : Sources,
                      pulled : {0}, comments : {<<>>}]
    /\ processor = [similarity_threshold |-> 80, min_duplicate_count |-> 3]
    /\ comment_list = <<>>
    /\ pc = "ready"
    /\ processed = 0
    /\ open_groups = <<>>
    /\ result = NoResult
    /\ arg_text = <<>>
    /\ arg_text2 = <<>>
    /\ arg_author = <<>>
    /\ verdict = NoVerdict
    /\ requests = <<>>
    /\ analyze_calls = <<>>
    /\ detector = URLSpamDetector

DownloadUnchanged ==
    UNCHANGED <<processor, comment_list, pc, processed, open_groups, result,
                arg_text, arg_text2, arg_author, verdict, requests, analyze_calls, detector>>

\* One pass of "for comment in comment_generator": the next comment is taken
\* from the source, processed and appended; the loop breaks when the limit
\* is reached.
DownloadNextComment ==
    /\ download.pc = "loop"
    /\ download.pulled < Len(download.source)
    /\ LET comment == download.source[download.pulled + 1]
           comments == Append(download.comments, _process_comment(comment))
       IN  download' = [download EXCEPT
                           !.pulled = @ + 1,
                           !.comments = comments,
                           !.pc = IF limit_reached(download.limit, comments)
                                  THEN "returned" ELSE "loop"]
    /\ DownloadUnchanged

\* The generator is exhausted: the loop ends and comments is returned.
DownloadExhausted ==
    /\ download.pc = "loop"
    /\ download.pulled = Len(download.source)
    /\ download' = [download EXCEPT !.pc = "returned"]
    /\ DownloadUnchanged

NextDownload ==
    \/ DownloadNextComment
    \/ DownloadExhausted

SpecDownload == InitDownload /\ [][NextDownload]_vars

(***************************************************************************)
(* Properties of detect_similar_duplicates and detect_exact_duplicates,     *)
(* under Spec.                                                              *)
(***************************************************************************)
\* calculate_similarity(member.text, representative.text) >= threshold, the
\* threshold in percent.
SimilarEnough(member, representative, similarity_threshold) ==
    LET sim == calculate_similarity(member.text, representative.text)
    IN  sim.num * 100 >= similarity_threshold * sim.den

GreedyPlacement(groups, similarity_threshold) ==
    /\ \A g \in DOMAIN groups :
          /\ \A k \in 2..Len(groups[g]) :
                /\ groups[g][k - 1].comment_id < groups[g][k].comment_id
                /\ SimilarEnough(groups[g][k], groups[g][1], similarity_threshold)
          /\ \A h \in 1..(g - 1) :
                /\ groups[h][1].comment_id < groups[g][1].comment_id
                /\ \A k \in 1..Len(groups[g]) :
                      ~SimilarEnough(groups[g][k], groups[h][1], similarity_threshold)

\* C2: detect_similar_duplicates takes the comments in input order; each
\* joins the earliest-created cluster whose representative it is similar
\* enough to, and starts a new cluster only when there is none: after every
\* pass of the loop the clusters hold exactly the comments processed so far,
\* placed greedily, and so are the clusters returned.
C2_GreedyFirstMatch ==
    /\ pc = "similar_loop" =>
          /\ GreedyPlacement(open_groups, processor.similarity_threshold)
          /\ group_member_ids(open_groups) = 1..processed
    /\ result.method = "detect_similar_duplicates" =>
          GreedyPlacement(result.value, processor.similarity_threshold)

\* A comment has been placed in the second of two clusters although a later
\* cluster exists: it was compared with the first representative, then the
\* second, and joined.
C2_Witness ==
    /\ pc = "similar_loop"
    /\ Len(open_groups) >= 2
    /\ Len(open_groups[2]) >= 2
    /\ processor.similarity_threshold = 80

\* The comments of the input whose normalized text has the hash h.
WithHash(h) ==
    {k \in DOMAIN comment_list : calculate_text_hash(comment_list[k].text) = h}

\* C3: detect_exact_duplicates reports a group for a hash exactly when at
\* least min_duplicate_count comments of the input have it; the group holds
\* all and only those comments; and the duplicate_count of a group in the
\* report equals the number of its comment_ids.
C3_ExactGroupsReportedIffEnough ==
    /\ result.method = "detect_exact_duplicates" =>
          /\ \A k \in DOMAIN comment_list :
                LET h == calculate_text_hash(comment_list[k].text)
                IN  (Cardinality(WithHash(h)) >= processor.min_duplicate_count)
                        <=> (\E e \in DOMAIN result.value : result.value[e].hash = h)
          /\ \A e \in DOMAIN result.value :
                /\ {result.value[e].group[j].comment_id :
                        j \in DOMAIN result.value[e].group} = WithHash(result.value[e].hash)
                /\ Len(result.value[e].group) = Cardinality(WithHash(result.value[e].hash))
          /\ \A e, f \in DOMAIN result.value :
                result.value[e].hash = result.value[f].hash => e = f
    /\ result.method = "process_comments" =>
          \A e \in DOMAIN result.value.duplicate_groups.exact_duplicates.groups :
                LET entry == result.value.duplicate_groups.exact_duplicates.groups[e]
                IN  entry.duplicate_count = Len(entry.comment_ids)

\* Three identical comments with min_duplicate_count = 3: one group of three.
C3_Witness ==
    /\ result.method = "detect_exact_duplicates"
    /\ processor.min_duplicate_count = 3
    /\ Len(comment_list) = 3
    /\ Len(result.value) = 1
    /\ Len(result.value[1].group) = 3

\* Two identical comments with min_duplicate_count = 3: no group.
C3_WitnessBelowCount ==
    /\ result.method = "detect_exact_duplicates"
    /\ processor.min_duplicate_count = 3
    /\ Len(comment_list) = 2
    /\ comment_list[1].text = comment_list[2].text
    /\ result.value = <<>>

(***************************************************************************)
(* Properties of the report of process_comments, under Spec.                *)
(***************************************************************************)
\* The elements of a list.
Elements(list) == {list[k] : k \in DOMAIN list}

\* The comment_ids of the groups of one part of duplicate_groups.
ReportedGroupIds(part) ==
    UNION {Elements(part.groups[g].comment_ids) : g \in DOMAIN part.groups}

\* C4: for a non-empty list the suspicious_comment_ids of the report are
\* exactly the ids of the members of the reported exact-duplicate groups, of
\* the members of the reported similarity clusters, of the comments whose
\* analyze_comment verdict is spam, and of the replies the reply pass
\* flagged.
C4_SuspiciousIdsAreTheUnion ==
    (result.method = "process_comments" /\ comment_list # <<>>) =>
        Elements(result.value.suspicious_comment_ids) =
            ReportedGroupIds(result.value.duplicate_groups.exact_duplicates)
            \cup ReportedGroupIds(result.value.duplicate_groups.similar_groups)
            \cup {comment_list[k].comment_id :
                    k \in {j \in DOMAIN comment_list :
                        analyze_comment(comment_list[j].text,
                                        comment_list[j].author).is_spam}}
            \cup {result.value.spam_patterns.reply_spam_details[k].comment_id :
                    k \in DOMAIN result.value.spam_patterns.reply_spam_details}

\* A report in which a similarity cluster, a spam verdict and a flagged
\* reply each contribute ids, and one comment is not suspicious.
C4_Witness ==
    /\ result.method = "process_comments"
    /\ result.value.duplicate_groups.similar_groups.count >= 1
    /\ result.value.spam_patterns.url_spam >= 1
    /\ result.value.spam_patterns.reply_spam_count >= 1
    /\ result.value.suspicious_count < result.value.total_comments

\* C7, as stated: for a fixed list and min_duplicate_count, every comment in
\* a cluster reported under a threshold is in a cluster reported under every
\* lower threshold.
C7_ThresholdMonotonic ==
    result.method = "detect_similar_duplicates" =>
        \A t_low \in Thresholds :
            t_low < processor.similarity_threshold =>
                group_member_ids(result.value) \subseteq
                    similar_group_ids(comment_list, t_low,
                                      processor.min_duplicate_count)

(***************************************************************************)
(* Properties of analyze_comment, under SpecSpam.                           *)
(***************************************************************************)
\* C5: is_spam = (total_score >= 6 or is_suspicious or is_promotional),
\* where total_score = total_risk_score + 2 * promotional_score
\* + combination_score (scores in tenths).
C5_IsSpamIsTheDisjunction ==
    pc = "returned" =>
        /\ verdict.total_spam_score =
                verdict.risk_analysis.total_risk_score
                + 10 * (2 * verdict.additional_patterns.promotional_score)
                + 10 * verdict.combination_analysis.combination_score
        /\ verdict.is_spam <=>
                \/ verdict.total_spam_score >= 60
                \/ verdict.risk_analysis.is_suspicious
                \/ verdict.additional_patterns.is_promotional

\* is_promotional alone makes the verdict spam.
C5_Witness ==
    /\ pc = "returned"
    /\ verdict.is_spam
    /\ verdict.total_spam_score < 60
    /\ ~verdict.risk_analysis.is_suspicious
    /\ verdict.additional_patterns.is_promotional

\* total_score >= 6 alone makes the verdict spam.
C5_WitnessTotalAlone ==
    /\ pc = "returned"
    /\ verdict.is_spam
    /\ verdict.total_spam_score >= 60
    /\ ~verdict.risk_analysis.is_suspicious
    /\ ~verdict.additional_patterns.is_promotional

\* All three are false and the verdict is not spam.
C5_WitnessNotSpam ==
    /\ pc = "returned"
    /\ ~verdict.is_spam
    /\ verdict.total_spam_score > 0

\* C6, as stated: total_risk_score < 6, is_suspicious false and
\* is_promotional false give is_spam false.
C6_LowRiskScoreNotSpam ==
    (/\ pc = "returned"
     /\ verdict.risk_analysis.total_risk_score < 60
     /\ ~verdict.risk_analysis.is_suspicious
     /\ ~verdict.additional_patterns.is_promotional) => ~verdict.is_spam

\* C6, amended: total_spam_score < 6, is_suspicious false and is_promotional
\* false give is_spam false; each of total_spam_score >= 6, is_suspicious and
\* is_promotional gives is_spam true.
C6_LowTotalScoreNotSpam ==
    pc = "returned" =>
        /\ (/\ verdict.total_spam_score < 60
            /\ ~verdict.risk_analysis.is_suspicious
            /\ ~verdict.additional_patterns.is_promotional) => ~verdict.is_spam
        /\ verdict.total_spam_score >= 60 => verdict.is_spam
        /\ verdict.risk_analysis.is_suspicious => verdict.is_spam
        /\ verdict.additional_patterns.is_promotional => verdict.is_spam

\* A verdict whose total_spam_score is exactly 6 with a total_risk_score
\* below 6: spam by the total score alone.
C6_Witness ==
    /\ pc = "returned"
    /\ verdict.total_spam_score = 60
    /\ verdict.risk_analysis.total_risk_score < 60
    /\ ~verdict.additional_patterns.is_promotional
    /\ verdict.is_spam

(***************************************************************************)
(* Properties of process_comments on the empty list, under Spec.            *)
(***************************************************************************)
\* C9: process_comments([]) returns a report with total_comments = 0,
\* suspicious_count = 0, exact_duplicates and similar_groups with count 0
\* and no groups, and no suspicious_comment_ids.
C9_EmptyInputZeroReport ==
    (result.method = "process_comments" /\ comment_list = <<>>) =>
        /\ result.value.total_comments = 0
        /\ result.value.suspicious_count = 0
        /\ result.value.duplicate_groups.exact_duplicates.count = 0
        /\ result.value.duplicate_groups.exact_duplicates.groups = <<>>
        /\ result.value.duplicate_groups.similar_groups.count = 0
        /\ result.value.duplicate_groups.similar_groups.groups = <<>>
        /\ result.value.suspicious_comment_ids = <<>>

\* process_comments has returned on the empty list.
C9_Witness ==
    /\ result.method = "process_comments"
    /\ comment_list = <<>>
    /\ pc = "returned"

\* C10, as stated: every report of process_comments has the keys
\* total_comments, suspicious_count, duplicate_groups (with exact_duplicates
\* and similar_groups), spam_patterns (with its counts and detail lists),
\* suspicious_comment_ids and processing_summary.
C10_FullReportShape ==
    result.method = "process_comments" =>
        /\ {"total_comments", "suspicious_count", "duplicate_groups",
            "spam_patterns", "suspicious_comment_ids", "processing_summary"}
                \subseteq DOMAIN result.value
        /\ {"exact_duplicates", "similar_groups"}
                \subseteq DOMAIN result.value.duplicate_groups
        /\ {"exact_duplicates", "similar_groups", "suspicious_authors",
            "common_phrases", "short_repetitive", "emoji_spam", "link_spam",
            "url_spam", "url_spam_details", "reply_spam_count",
            "reply_spam_details", "reply_chain_spam", "reply_duplicate_patterns"}
                \subseteq DOMAIN result.value.spam_patterns

(***************************************************************************)
(* Properties of the /processor routes, under SpecApi.                      *)
(***************************************************************************)
\* C8, as stated: the similarity_threshold and min_duplicate_count in effect
\* during a request's process_comments call are the values that request
\* supplied.
C8_OwnSettingsInEffect ==
    \A r \in RequestIds :
        requests[r].used # None =>
            /\ requests[r].similarity_threshold # None =>
                  requests[r].used[1].similarity_threshold
                        = requests[r].similarity_threshold[1]
            /\ requests[r].min_duplicate_count # None =>
                  requests[r].used[1].min_duplicate_count
                        = requests[r].min_duplicate_count[1]

(***************************************************************************)
(* C11.  process_comments returns a report for every list, also one with   *)
(* records whose text or author is absent or None: no exception is raised, *)
(* and the report is the one of the list in which every such field is the  *)
(* empty string.                                                           *)
(***************************************************************************)
\* The list with the empty string in place of every value that is not a
\* string.
blanked(comments) ==
    [k \in DOMAIN comments |->
        [comment_id |-> comments[k].comment_id,
         text |-> IF IsStr(comments[k].text) THEN comments[k].text ELSE <<>>,
         author |-> IF IsStr(comments[k].author) THEN comments[k].author ELSE <<>>,
         is_reply |-> comments[k].is_reply]]

C11_MalformedRecordsReadAsEmpty ==
    result.method = "process_comments" =>
        /\ "value" \in DOMAIN result
        /\ \E suspicious_ids \in ListsOf(suspicious_id_set(blanked(comment_list),
                                      processor.similarity_threshold,
                                      processor.min_duplicate_count)) :
              result.value = process_comments(blanked(comment_list),
                                 processor.similarity_threshold,
                                 processor.min_duplicate_count, suspicious_ids)

(***************************************************************************)
(* C12.  An error raised while a comment is analysed is not swallowed: a   *)
(* report is returned only when the analysis of every comment succeeded.   *)
(***************************************************************************)
C12_AnalysisErrorsNotSwallowed ==
    (result.method = "process_comments" /\ "value" \in DOMAIN result) =>
        \A k \in DOMAIN comment_list :
            "_url_analysis" \in DOMAIN comment_list[k]
                => "error" \notin DOMAIN comment_list[k]._url_analysis

(***************************************************************************)
(* C13.  process_comments leaves the list and the settings as they were,   *)
(* but for the _url_analysis annotation: the same records in the same      *)
(* order, every field a record had with the value it had, no key added     *)
(* other than _url_analysis, similarity_threshold and min_duplicate_count  *)
(* unchanged.                                                              *)
(***************************************************************************)
C13_InputsAndSettingsKept ==
    [][(pc = "ready" /\ result'.method = "process_comments") =>
            /\ processor' = processor
            /\ DOMAIN comment_list' = DOMAIN comment_list
            /\ \A k \in DOMAIN comment_list :
                  /\ DOMAIN comment_list'[k] \subseteq
                        DOMAIN comment_list[k] \cup {"_url_analysis"}
                  /\ \A f \in DOMAIN comment_list[k] \ {"_url_analysis"} :
                        comment_list'[k][f] = comment_list[k][f]]_vars

\* process_comments returned and annotated a comment of its list.
C13_Witness ==
    /\ result.method = "process_comments"
    /\ "value" \in DOMAIN result
    /\ \E k \in DOMAIN comment_list :
          /\ "_url_analysis" \in DOMAIN comment_list[k]
          /\ comment_list[k].text = <<"B", "C", "!">>

(***************************************************************************)
(* C14.  Whatever requests the /processor routes have served, the shared   *)
(* processor has 0 <= similarity_threshold <= 1 and                        *)
(* min_duplicate_count >= 2, and a request that carried a value out of     *)
(* range was rejected (400 or 422).                                        *)
(***************************************************************************)
OutOfRange(request) ==
    ~(threshold_field_ok(request.similarity_threshold)
        /\ min_count_field_ok(request.min_duplicate_count))

C14_SharedSettingsStayInRange ==
    /\ 0 <= processor.similarity_threshold
    /\ processor.similarity_threshold <= 100
    /\ processor.min_duplicate_count >= 2
    /\ \A r \in DOMAIN requests :
          (requests[r].pc # "idle" /\ OutOfRange(requests[r]))
              => requests[r].status \in {400, 422}

\* One request was refused for min_duplicate_count = 1 by PUT /settings after
\* its threshold had been installed, the other was refused by the request
\* model for a threshold of 1.5.
C14_Witness ==
    /\ DOMAIN requests = RequestIds
    /\ \E r, q \in RequestIds :
          /\ requests[r].route = "settings"
          /\ requests[r].similarity_threshold = Some(50)
          /\ requests[r].min_duplicate_count = Some(1)
          /\ requests[r].status = 400
          /\ requests[q].route = "analyze-comments"
          /\ requests[q].similarity_threshold = Some(150)
          /\ requests[q].status = 422
          /\ processor.similarity_threshold = 50

(***************************************************************************)
(* C15.  For the total_risk_score s of a verdict: suspicion_level is       *)
(* 'high' iff s >= 15, 'medium' iff 8 <= s < 15, 'low' iff 3 <= s < 8,     *)
(* 'safe' iff s < 3; is_suspicious iff s >= 6; so is_suspicious is never   *)
(* true at 'safe' and always true at 'medium' and 'high'.  (s in tenths.)  *)
(***************************************************************************)
C15_SuspicionLevelBands ==
    "risk_analysis" \in DOMAIN verdict =>
        LET s == verdict.risk_analysis.total_risk_score
            level == verdict.risk_analysis.suspicion_level
            suspicious == verdict.risk_analysis.is_suspicious
        IN  /\ level \in {"high", "medium", "low", "safe"}
            /\ (level = "high") <=> (s >= 150)
            /\ (level = "medium") <=> (80 <= s /\ s < 150)
            /\ (level = "low") <=> (30 <= s /\ s < 80)
            /\ (level = "safe") <=> (s < 30)
            /\ suspicious <=> (s >= 60)
            /\ level = "safe" => ~suspicious
            /\ level \in {"medium", "high"} => suspicious

\* A verdict at the lower edge of 'medium' (8.0), hence suspicious.
C15_Witness ==
    /\ pc = "returned"
    /\ "risk_analysis" \in DOMAIN verdict
    /\ verdict.risk_analysis.total_risk_score = 80
    /\ verdict.risk_analysis.suspicion_level = "medium"
    /\ verdict.risk_analysis.is_suspicious

\* A verdict at 'high'.
C15_WitnessHigh ==
    /\ pc = "returned"
    /\ "risk_analysis" \in DOMAIN verdict
    /\ verdict.risk_analysis.total_risk_score >= 150
    /\ verdict.risk_analysis.suspicion_level = "high"

\* A verdict at the lower edge of 'low' (3.0), not suspicious.
C15_WitnessLow ==
    /\ pc = "returned"
    /\ "risk_analysis" \in DOMAIN verdict
    /\ verdict.risk_analysis.total_risk_score = 30
    /\ verdict.risk_analysis.suspicion_level = "low"
    /\ ~verdict.risk_analysis.is_suspicious

\* A 'low' verdict that is suspicious (from 6.0 up), and a 'safe' one.
C15_WitnessLowSuspicious ==
    /\ pc = "returned"
    /\ "risk_analysis" \in DOMAIN verdict
    /\ verdict.risk_analysis.suspicion_level = "low"
    /\ verdict.risk_analysis.is_suspicious

C15_WitnessSafe ==
    /\ pc = "returned"
    /\ "risk_analysis" \in DOMAIN verdict
    /\ verdict.risk_analysis.total_risk_score = 20
    /\ verdict.risk_analysis.suspicion_level = "safe"

(***************************************************************************)
(* C16.  spam_confidence is an integer from 0 to 100, equal to             *)
(* min(100, total_spam_score * 4) truncated to an integer, and is 100 for  *)
(* every total_spam_score >= 25.  (total_spam_score in tenths.)            *)
(***************************************************************************)
C16_SpamConfidenceTruncatedAndCapped ==
    "total_spam_score" \in DOMAIN verdict =>
        LET total == verdict.total_spam_score
            confidence == verdict.spam_confidence
        IN  /\ confidence \in 0..100
            /\ IF total * 4 >= 1000
               THEN confidence = 100
               ELSE /\ confidence * 10 <= total * 4
                    /\ total * 4 < (confidence + 1) * 10
            /\ total >= 250 => confidence = 100

\* A verdict whose score times four is above 100 (26.2 * 4 = 104.8).
C16_Witness ==
    /\ pc = "returned"
    /\ "total_spam_score" \in DOMAIN verdict
    /\ verdict.total_spam_score > 250
    /\ verdict.spam_confidence = 100

\* A verdict whose score times four is not an integer and is cut down to
\* one (a score of 7.2 gives 28.8, reported as 28).
C16_WitnessTruncated ==
    /\ pc = "returned"
    /\ "total_spam_score" \in DOMAIN verdict
    /\ (verdict.total_spam_score * 4) % 10 # 0
    /\ verdict.spam_confidence * 10 < verdict.total_spam_score * 4
    /\ verdict.spam_confidence < 100

(***************************************************************************)
(* C17.  calculate_similarity is symmetric: calculate_similarity(a, b) is  *)
(* calculate_similarity(b, a) for all strings a and b.                     *)
(***************************************************************************)
SameRatio(r, q) == r.num * q.den = q.num * r.den

C17_SimilarityIsSymmetric ==
    result.method = "calculate_similarity" =>
        SameRatio(result.value, calculate_similarity(arg_text2, arg_text))

(***************************************************************************)
(* C18.  calculate_similarity(a, a) is 1.0 for every non-empty string a,   *)
(* and every result lies in [0, 1].                                        *)
(***************************************************************************)
C18_SelfSimilarityOfNonEmptyIsOne ==
    result.method = "calculate_similarity" =>
        /\ 0 <= result.value.num /\ result.value.num <= result.value.den
        /\ (arg_text = arg_text2 /\ IsStr(arg_text) /\ arg_text # <<>>)
              => result.value.num = result.value.den

\* Amended: calculate_similarity(a, a) is 1.0 for every string a whose
\* normalized text is not empty and 0.0 for every other a; every result lies
\* in [0, 1].
C18_SelfSimilarityOfNormalizedNonEmpty ==
    result.method = "calculate_similarity" =>
        /\ result.value.den > 0
        /\ 0 <= result.value.num /\ result.value.num <= result.value.den
        /\ arg_text = arg_text2 =>
              IF preprocess_text(arg_text) # <<>>
              THEN result.value.num = result.value.den
              ELSE result.value.num = 0

\* calculate_similarity was called on a text and itself, the text holding
\* letters and characters that the normalization removes.
C18_Witness ==
    /\ result.method = "calculate_similarity"
    /\ arg_text = <<"A", "!", "b">>
    /\ arg_text2 = arg_text
    /\ result.value.num = result.value.den

\* It was called on a non-empty text and itself and returned 0.0.
C18_WitnessZero ==
    /\ result.method = "calculate_similarity"
    /\ arg_text = <<"!", " ">>
    /\ arg_text2 = arg_text
    /\ result.value.num = 0

(***************************************************************************)
(* C19.  preprocess_text is idempotent: preprocess_text(preprocess_text(x))*)
(* is preprocess_text(x) for every string x, the empty string and None     *)
(* included (both normalize to the empty string).                          *)
(***************************************************************************)
C19_PreprocessIsIdempotent ==
    result.method = "preprocess_text" =>
        /\ preprocess_text(result.value) = result.value
        /\ arg_text \in {<<>>, NoneText} => result.value = <<>>

\* preprocess_text was called on a text that every step of it changes.
C19_Witness ==
    /\ result.method = "preprocess_text"
    /\ arg_text = <<"A", " ", "!">>
    /\ result.value = <<"a">>

C19_WitnessNone ==
    /\ result.method = "preprocess_text"
    /\ arg_text = NoneText
    /\ result.value = <<>>

(***************************************************************************)
(* C20.  In the report's reply analysis each reply scores 3 if its         *)
(* normalized text has at most 2 characters, plus 6 if its analyze_comment *)
(* verdict is spam, plus 5 if its similarity to at least one non-reply     *)
(* comment is strictly above 0.8 (whatever similarity_threshold is); a     *)
(* reply is listed in reply_spam_details iff the score is at least 5, with *)
(* that score, so a reply that is only very short is not listed.           *)
(***************************************************************************)
ReplyScore(reply, comments) ==
    (IF Len(preprocess_text(reply.text)) <= 2 THEN 3 ELSE 0)
    + (IF analyze_comment(reply.text, reply.author).is_spam THEN 6 ELSE 0)
    + (IF \E j \in DOMAIN comments :
              /\ ~comments[j].is_reply
              /\ LET r == calculate_similarity(reply.text, comments[j].text)
                 IN  r.num * 10 > 8 * r.den
       THEN 5 ELSE 0)

C20_ReplyFlaggedIffScoreAtLeastFive ==
    (result.method = "process_comments" /\ comment_list # <<>>) =>
        LET details == result.value.spam_patterns.reply_spam_details
        IN  /\ result.value.spam_patterns.reply_spam_count = Len(details)
            /\ \A k \in DOMAIN comment_list :
                  LET listed == {d \in DOMAIN details :
                                    details[d].comment_id = comment_list[k].comment_id}
                  IN  IF comment_list[k].is_reply
                           /\ ReplyScore(comment_list[k], comment_list) >= 5
                      THEN /\ Cardinality(listed) = 1
                           /\ \A d \in listed :
                                 details[d].spam_score
                                    = ReplyScore(comment_list[k], comment_list)
                      ELSE listed = {}

\* process_comments returned for the top-level "bc" and the replies "BC!"
\* (very short and equal to "bc" once normalized: 3 + 5, listed) and "!"
\* (very short only: 3, not listed).
C20_Witness ==
    /\ result.method = "process_comments"
    /\ Len(comment_list) = 3
    /\ comment_list[1].text = <<"b", "c">> /\ ~comment_list[1].is_reply
    /\ comment_list[1].author = <<"u">>
    /\ comment_list[2].text = <<"B", "C", "!">> /\ comment_list[2].is_reply
    /\ comment_list[3].text = <<"!">> /\ comment_list[3].is_reply
    /\ processor.similarity_threshold = 50
    /\ LET details == result.value.spam_patterns.reply_spam_details
       IN  /\ Len(details) = 1
           /\ details[1].comment_id = 2
           /\ details[1].spam_score = 8

\* The reply "BC!" next to the top-level "abc": the similarity is exactly
\* 0.8, which is not above the bound, and the reply is not listed.
C20_WitnessAtBound ==
    /\ result.method = "process_comments"
    /\ Len(comment_list) = 2
    /\ comment_list[1].text = <<"a", "b", "c">> /\ ~comment_list[1].is_reply
    /\ comment_list[2].text = <<"B", "C", "!">> /\ comment_list[2].is_reply
    /\ processor.similarity_threshold = 80
    /\ result.value.spam_patterns.reply_spam_details = <<>>

\* A reply listed with the verdict among its indicators (3 + 6).
C20_WitnessVerdict ==
    /\ result.method = "process_comments"
    /\ comment_list # <<>>
    /\ \E d \in DOMAIN result.value.spam_patterns.reply_spam_details :
          result.value.spam_patterns.reply_spam_details[d].spam_indicators
              = <<"very_short", "url_spam">>

(***************************************************************************)
(* C21.  The members of every group returned by detect_exact_duplicates    *)
(* and of every cluster returned by detect_similar_duplicates are in the   *)
(* order of the input list, so the first member of a cluster is the        *)
(* earliest input comment of the cluster.  (comment_id is the position.)   *)
(***************************************************************************)
InInputOrder(group) ==
    /\ \A i, j \in DOMAIN group : i < j => group[i].comment_id < group[j].comment_id
    /\ \A i \in DOMAIN group : comment_list[group[i].comment_id] = group[i]

C21_MembersKeepInputOrder ==
    /\ result.method = "detect_exact_duplicates" =>
          \A e \in DOMAIN result.value : InInputOrder(result.value[e].group)
    /\ result.method = "detect_similar_duplicates" =>
          \A g \in DOMAIN result.value :
              /\ InInputOrder(result.value[g])
              /\ \A i \in DOMAIN result.value[g] :
                    result.value[g][1].comment_id <= result.value[g][i].comment_id

\* detect_similar_duplicates returned a cluster of the comments 1 and 3, the
\* comment between them being in no reported cluster.
C21_Witness ==
    /\ result.method = "detect_similar_duplicates"
    /\ Len(comment_list) = 3
    /\ \E g \in DOMAIN result.value :
          /\ Len(result.value[g]) = 2
          /\ result.value[g][1].comment_id = 1
          /\ result.value[g][2].comment_id = 3

\* detect_exact_duplicates returned a group of the comments 1 and 3.
C21_WitnessExact ==
    /\ result.method = "detect_exact_duplicates"
    /\ Len(comment_list) = 3
    /\ \E e \in DOMAIN result.value :
          IdsOf(result.value[e].group) = <<1, 3>>

(***************************************************************************)
(* C22.  download_comments called with an integer limit returns at most    *)
(* limit comments: the loop stops taking comments from the source once     *)
(* limit comments are collected, and the result is the first comments of   *)
(* the source, in order.                                                   *)
(***************************************************************************)
C22_AtMostLimitComments ==
    (download.pc = "returned" /\ download.limit # None) =>
        /\ Len(download.comments) <= download.limit[1]
        /\ download.pulled = Len(download.comments)
        /\ \A k \in DOMAIN download.comments :
              download.comments[k] = _process_comment(download.source[k])

(***************************************************************************)
(* C23.  URL matches are not deduplicated between extraction and scoring:  *)
(* the verdict lists one entry per match of each of the five patterns, in  *)
(* pattern order, also when the spans of two entries overlap or coincide,  *)
(* and the risk of every entry is added separately, so a substring that k  *)
(* patterns match adds k times its domain and window-keyword risk to       *)
(* total_risk_score.                                                       *)
(***************************************************************************)
\* The spans that pattern p matches in the text.
SpansOf(p, text) ==
    LET found == finditer(detector.url_patterns[p], text, 1)
    IN  {found[k] : k \in DOMAIN found}

\* The number of patterns that match exactly the span.
PatternsMatching(span, text) ==
    Cardinality({p \in DOMAIN detector.url_patterns : span \in SpansOf(p, text)})

C23_UrlMatchesNotDeduplicated ==
    "urls" \in DOMAIN verdict =>
        LET urls == verdict.urls
            Span(k) == [start |-> urls[k].start, end |-> urls[k].end]
            spans == UNION {SpansOf(p, arg_text) : p \in DOMAIN detector.url_patterns}
            RECURSIVE Weighted(_)
            Weighted(ss) ==
                IF ss = {} THEN 0
                ELSE LET sp == CHOOSE x \in ss : TRUE
                         entry == [url |-> Strip(SubSeq(arg_text, sp.start + 1, sp.end)),
                                   start |-> sp.start, end |-> sp.end]
                     IN  PatternsMatching(sp, arg_text)
                            * url_risk_score(entry, arg_text)
                         + Weighted(ss \ {sp})
        IN  /\ \A sp \in spans :
                    Cardinality({k \in DOMAIN urls : Span(k) = sp})
                        = PatternsMatching(sp, arg_text)
            /\ \A k \in DOMAIN urls : Span(k) \in spans
            /\ \A j, k \in DOMAIN urls :
                    j < k => \E p, q \in DOMAIN detector.url_patterns :
                                /\ p <= q
                                /\ Span(j) \in SpansOf(p, arg_text)
                                /\ Span(k) \in SpansOf(q, arg_text)
            /\ verdict.risk_analysis.total_risk_score
                    = Weighted(spans) + text_keyword_risk(arg_text)
                      + 10 * nickname_suspicion_score(arg_author)

\* A verdict on a comment in which two patterns match the same span: two
\* equal entries, and a URL risk counted twice.
C23_Witness ==
    /\ pc = "returned"
    /\ "urls" \in DOMAIN verdict
    /\ \E j, k \in DOMAIN verdict.urls :
            /\ j < k
            /\ verdict.urls[j] = verdict.urls[k]
            /\ url_risk_score(verdict.urls[j], arg_text) > 0
            /\ verdict.risk_analysis.total_risk_score
                    >= 2 * url_risk_score(verdict.urls[j], arg_text)

\* A verdict on a comment in which two matches overlap without coinciding.
C23_WitnessOverlap ==
    /\ pc = "returned"
    /\ "urls" \in DOMAIN verdict
    /\ \E j, k \in DOMAIN verdict.urls :
            /\ verdict.urls[j].start < verdict.urls[k].start
            /\ verdict.urls[k].start < verdict.urls[j].end

(***************************************************************************)
(* C24.  Within one process_comments call the URL/risk analysis of a       *)
(* comment is computed once and reused: url_spam_detector.analyze_comment  *)
(* is invoked at most once per comment.                                    *)
(***************************************************************************)
C24_AnalyzedAtMostOncePerComment ==
    (pc = "returned" /\ result.method = "process_comments") =>
        \A k \in DOMAIN analyze_calls : analyze_calls[k] <= 1

(***************************************************************************)
(* C25.  The clusters built by detect_similar_duplicates partition the     *)
(* input: after every pass of the loop each comment processed so far (by   *)
(* list position) is in exactly one cluster, at one place of it, and no    *)
(* cluster is empty; so the clusters returned are pairwise disjoint and    *)
(* their sizes sum to at most the number of input comments.                *)
(***************************************************************************)
\* The places (cluster, index) at which the comment of list position p is.
PlacesOf(groups, p) ==
    UNION {{<<g, k>> : k \in {j \in DOMAIN groups[g] : groups[g][j].comment_id = p}} :
            g \in DOMAIN groups}

RECURSIVE SizeSum(_)
SizeSum(groups) ==
    IF groups = <<>> THEN 0 ELSE Len(Head(groups)) + SizeSum(Tail(groups))

C25_ClustersPartitionProcessed ==
    /\ pc = "similar_loop" =>
          /\ \A p \in 1..processed : Cardinality(PlacesOf(open_groups, p)) = 1
          /\ \A p \in (processed + 1)..Len(comment_list) :
                PlacesOf(open_groups, p) = {}
          /\ \A g \in DOMAIN open_groups : open_groups[g] # <<>>
          /\ SizeSum(open_groups) = processed
    /\ result.method = "detect_similar_duplicates" =>
          /\ \A p \in DOMAIN comment_list :
                Cardinality(PlacesOf(result.value, p)) <= 1
          /\ \A g \in DOMAIN result.value : result.value[g] # <<>>
          /\ SizeSum(result.value) <= Len(comment_list)

\* The loop has processed the whole of a three-comment list into two
\* clusters, one of them of two comments.
C25_Witness ==
    /\ pc = "similar_loop"
    /\ processed = 3
    /\ Len(open_groups) = 2
    /\ \E g \in DOMAIN open_groups : Len(open_groups[g]) = 2

\* Two clusters are returned from one list.
C25_WitnessReturned ==
    /\ result.method = "detect_similar_duplicates"
    /\ Len(result.value) >= 2

(***************************************************************************)
(* C26.  For a similarity_threshold in [0, 1], every exact-duplicate group *)
(* that detect_exact_duplicates reports and whose normalized text is not   *)
(* empty lies inside one cluster reported by detect_similar_duplicates, so *)
(* a reported group of that kind comes with at least one reported cluster. *)
(***************************************************************************)
\* The exact-duplicate groups reported for the list, whose normalized text is
\* not empty.
ReportedExactGroupsWithText ==
    LET exact == groups_of(detect_exact_duplicates(comment_list,
                                                   processor.min_duplicate_count))
    IN  {exact[k] : k \in {j \in DOMAIN exact :
                                preprocess_text(exact[j][1].text) # <<>>}}

C26_ExactGroupInsideOneSimilarCluster ==
    (/\ result.method = "detect_similar_duplicates"
     /\ processor.similarity_threshold <= 100) =>
        \A group \in ReportedExactGroupsWithText :
            \E k \in DOMAIN result.value :
                Elements(IdsOf(group)) \subseteq Elements(IdsOf(result.value[k]))

\* An exact-duplicate group of "bc" and "BC!" is reported, and the cluster
\* that holds it has a third member with a different normalized text.
C26_Witness ==
    /\ result.method = "detect_similar_duplicates"
    /\ processor.similarity_threshold = 80
    /\ \E group \in ReportedExactGroupsWithText :
          /\ \E i, j \in DOMAIN group : group[i].text # group[j].text
          /\ \E k \in DOMAIN result.value :
                /\ Elements(IdsOf(group)) \subseteq Elements(IdsOf(result.value[k]))
                /\ Len(result.value[k]) > Len(group)

\* A group of comments whose normalized text is empty is reported as exact
\* duplicates while no cluster is reported.
C26_WitnessEmptyText ==
    /\ result.method = "detect_similar_duplicates"
    /\ processor.similarity_threshold = 80
    /\ result.value = <<>>
    /\ detect_exact_duplicates(comment_list, processor.min_duplicate_count) # <<>>
    /\ ReportedExactGroupsWithText = {}

(***************************************************************************)
(* C27.  Every entry of similarity_samples that get_duplicate_groups       *)
(* reports for a similar group has a similarity >= the similarity_threshold*)
(* the group was formed with.                                              *)
(***************************************************************************)
C27_SamplesAtLeastThreshold ==
    (/\ result.method = "process_comments"
     /\ "value" \in DOMAIN result
     /\ comment_list # <<>>) =>
        LET groups == result.value.duplicate_groups.similar_groups.groups
        IN  \A k \in DOMAIN groups :
                \A j \in DOMAIN groups[k].similarity_samples :
                    RatioAtLeast(groups[k].similarity_samples[j].similarity,
                                 processor.similarity_threshold)

(***************************************************************************)
(* C28.  A PUT /processor/settings request that is answered with an error  *)
(* leaves both settings of the processor as they were, even when one of    *)
(* the two supplied values is valid.                                       *)
(***************************************************************************)
RejectedSettingsStep ==
    \E r \in RequestIds :
        /\ requests[r].pc = "idle"
        /\ requests'[r].route = "settings"
        /\ requests'[r].status = 400

C28_RejectedPutChangesNothing ==
    [][RejectedSettingsStep => processor' = processor]_vars

(***************************************************************************)
(* C29.  The fields of a spam verdict agree with one another: no score     *)
(* component is negative, so risk.is_suspicious implies total_score >= 6;  *)
(* is_spam implies spam_confidence >= 16; spam_confidence >= 24 implies    *)
(* is_spam.                                                                *)
(***************************************************************************)
C29_VerdictFieldsConsistent ==
    pc = "returned" =>
        /\ verdict.risk_analysis.total_risk_score >= 0
        /\ verdict.additional_patterns.promotional_score >= 0
        /\ verdict.combination_analysis.combination_score >= 0
        /\ verdict.risk_analysis.is_suspicious => verdict.total_spam_score >= 60
        /\ verdict.is_spam => verdict.spam_confidence >= 16
        /\ verdict.spam_confidence >= 24 => verdict.is_spam

\* A verdict that is spam for being promotional only, at the lowest
\* confidence a spam verdict can have.
C29_Witness ==
    /\ pc = "returned"
    /\ verdict.is_spam
    /\ verdict.spam_confidence = 16
    /\ ~verdict.risk_analysis.is_suspicious
    /\ verdict.additional_patterns.is_promotional

\* A verdict that is not spam, at the highest confidence such a verdict can
\* have with the scores of the model.
C29_WitnessBelow ==
    /\ pc = "returned"
    /\ ~verdict.is_spam
    /\ verdict.spam_confidence >= 16
    /\ verdict.spam_confidence < 24

\* A suspicious verdict whose total score is its risk score alone.
C29_WitnessSuspicious ==
    /\ pc = "returned"
    /\ verdict.risk_analysis.is_suspicious
    /\ verdict.total_spam_score = verdict.risk_analysis.total_risk_score
    /\ verdict.spam_confidence >= 24

(***************************************************************************)
(* C30.  In every report process_comments returns: suspicious_comment_ids  *)
(* holds no id twice, every id in it is the comment_id of an input comment,*)
(* suspicious_count is its length, suspicious_count <= total_comments, and *)
(* total_comments is the length of the input list.                         *)
(***************************************************************************)
C30_ReportCountsAndIdsAgree ==
    (/\ result.method = "process_comments"
     /\ "value" \in DOMAIN result) =>
        LET report == result.value
            ids == report.suspicious_comment_ids
        IN  /\ \A i, j \in DOMAIN ids : ids[i] = ids[j] => i = j
            /\ \A i \in DOMAIN ids :
                  \E k \in DOMAIN comment_list : comment_list[k].comment_id = ids[i]
            /\ report.suspicious_count = Len(ids)
            /\ report.suspicious_count <= report.total_comments
            /\ report.total_comments = Len(comment_list)

\* A report on three comments that lists two of them, the later one first.
C30_Witness ==
    /\ result.method = "process_comments"
    /\ "value" \in DOMAIN result
    /\ result.value.total_comments = 3
    /\ result.value.suspicious_count = 2
    /\ result.value.suspicious_comment_ids[1] > result.value.suspicious_comment_ids[2]

\* A report that lists every comment of the input.
C30_WitnessAll ==
    /\ result.method = "process_comments"
    /\ "value" \in DOMAIN result
    /\ result.value.total_comments = 3
    /\ result.value.suspicious_count = 3

====
